---- MODULE Spec2Model ----
(***************************************************************************)
(* Model of the IBC-AAKA scheme (crate ibc_aaka_scheme and the RC / MS     *)
(* applications built on it).                                              *)
(*                                                                         *)
(* Groups are modelled by discrete logarithms: a point a*P of G1 (or a*P2  *)
(* of G2) is the scalar a of the field Fq, an element g^c of GT is the     *)
(* exponent c, and the pairing multiplies the two logarithms.  Fq is a     *)
(* small prime field; scalars are kept in canonical form and the           *)
(* Montgomery representation the library stores is computed where the      *)
(* code reads it.  Bytes are 0..255.                                       *)
(*                                                                         *)
(* Three state machines share the operators:                               *)
(*   Spec        one deployment of the protocol (RC, one user, one MS);    *)
(*   SharesSpec  one master key split by into_shares and rebuilt by        *)
(*               from_shares;                                              *)
(*   RcSpec      the handlers of the RC cluster on the nodes of the peer   *)
(*               list.                                                     *)
(* Each leaves the variables of the other two at rest.                     *)
(***************************************************************************)
EXTENDS Integers, Sequences, FiniteSets, TLC

\* ------------------------------------------------------------------------
\* Bounds of the model
\* ------------------------------------------------------------------------
\* seeds of the deterministic RNG: 0..MaxSeed
MaxSeed == 6
\* scalars one RNG can yield before the model stops drawing from it
MaxRngPos == 6
\* bytes of one SHA3 digest
HashLen == 2
\* bytes of a compressed G1 point
G1Size == 1
\* the clock never advances beyond MaxClock
MaxClock == 1301

\* largest number of shares a key is split into
MaxNodes == 3

\* the dealer's RNG delivers one of the draws 0..MaxDealerDraw
MaxDealerDraw == 1

\* number of RC nodes in the peer list
MaxPeers == 2

\* scalars the RNGs of an RC cluster yield in one run, all nodes together
MaxRcDraws == 4

\* requests one MS process handles in one run
MaxMsRequests == 2

\* width of a timestamp in bits (u64 in the code)
TimestampBits == 12

\* ------------------------------------------------------------------------
\* Scalar field Fq (ScalarField) and the groups G1, G2, GT
\* ------------------------------------------------------------------------
\* order of the scalar field and of the three groups
Q == 7

Fq == 0..(Q - 1)

\* Option::None, and a result not produced yet
None == [ok |-> FALSE, err |-> "None"]

FAdd(a, b) == (a + b) % Q

FMul(a, b) == (a * b) % Q

\* Field::inverse; zero has none, which is modelled by the result 0
FInverse(a) == IF a = 0 THEN 0 ELSE CHOOSE b \in Fq : (a * b) % Q = 1

RECURSIVE PowMod(_, _, _)
PowMod(b, e, m) ==
    IF e = 0 THEN 1 % m
    ELSE IF e % 2 = 0
         THEN LET h == PowMod(b, e \div 2, m) IN (h * h) % m
         ELSE (b * PowMod(b, e - 1, m)) % m

\* a field element is stored as NumLimbs limbs of LimbBytes bytes each
NumLimbs == 4

LimbBytes == 8

\* the Montgomery radix R = 2^(64 * NumLimbs) mod q
MontR == PowMod(2, 8 * LimbBytes * NumLimbs, Q)

\* the limbs an element stores (self.s.0): its Montgomery form a * R mod q
MontgomeryForm(a) == (a * MontR) % Q

\* G1Point::generator(), G2Point::generator()
G1Generator == 1

G2Generator == 1

\* point + point, point * scalar
GAdd(p1, p2) == (p1 + p2) % Q

GMul(p, k) == (p * k) % Q

\* Curve::pairing(a*P1, b*P2) = e(P1,P2)^(a*b)
Pairing(p1, p2) == (p1 * p2) % Q

\* PairingOutput::mul_bigint
GtMulBigint(g, k) == (g * k) % Q

\* ------------------------------------------------------------------------
\* The RNG handed to the operations (rng: &mut R): a seeded generator, its
\* state being the seed and the number of scalars drawn so far
\* ------------------------------------------------------------------------
Seeds == 0..MaxSeed

\* StdRng::seed_from_u64
seed_from_u64(seed) == [seed |-> seed, pos |-> 0]

\* the scalar the i-th next call of ScalarField::rand returns (i = 0 is next)
RandAt(rng, i) == (rng.seed + (rng.pos + i) * (rng.seed + 1)) % Q

\* state of the RNG after n calls of ScalarField::rand
Drawn(rng, n) == [rng EXCEPT !.pos = @ + n]

\* the model stops drawing from an RNG that has yielded MaxRngPos scalars
CanDraw(rng, n) == rng.pos + n <= MaxRngPos

\* ------------------------------------------------------------------------
\* Bytes
\* ------------------------------------------------------------------------
Byte == 0..255

\* bit k of a byte
Bit(a, k) == (a \div (2 ^ k)) % 2

\* h ^ p on u8
Xor8(a, b) ==
    LET XorBit(k) == ((Bit(a, k) + Bit(b, k)) % 2) * (2 ^ k)
    IN  XorBit(0) + XorBit(1) + XorBit(2) + XorBit(3)
        + XorBit(4) + XorBit(5) + XorBit(6) + XorBit(7)

\* variant of XorSeq that masks by adding the bytes modulo 256
AddSeq(s1, s2) == [i \in 1..Len(s1) |-> (s1[i] + s2[i]) % 256]

XorSeq(s1, s2) == [i \in 1..Len(s1) |-> Xor8(s1[i], s2[i])]

Zeros(n) == [i \in 1..n |-> 0]

\* u64::to_be_bytes / u32::to_be_bytes
RECURSIVE BeBytes(_, _)
BeBytes(v, width) ==
    IF width = 0 THEN <<>>
    ELSE Append(BeBytes(v \div 256, width - 1), v % 256)

\* little-endian bytes of the limbs of one stored element
RECURSIVE LeBytes(_, _)
LeBytes(v, width) ==
    IF width = 0 THEN <<>> ELSE <<v % 256>> \o LeBytes(v \div 256, width - 1)

Truncate(s, n) == IF Len(s) <= n THEN s ELSE SubSeq(s, 1, n)

\* ------------------------------------------------------------------------
\* Serialization and the hash family H0..H5 (hash_utils.rs)
\* ------------------------------------------------------------------------
Ok(v) == [ok |-> TRUE, val |-> v]

Err(kind) == [ok |-> FALSE, err |-> kind]

\* canonical compressed encoding of a G1 point: G1Size bytes
serialize_g1(point) == <<point>> \o Zeros(G1Size - 1)

\* G1AffinePoint::deserialize_compressed: fails on bytes that encode no point
deserialize_g1(bytes) ==
    IF Len(bytes) = G1Size /\ bytes[1] < Q
       /\ \A i \in 2..G1Size : bytes[i] = 0
    THEN Ok(bytes[1])
    ELSE Err("Deserialization")

\* canonical compressed encoding of a GT element
serialize_gt(point) == <<point>>

\* domain separation tags b"IBC_AAKA_H0" .. b"IBC_AAKA_H5"
DomainSep(i) == <<73, 66, 67, 95, 65, 65, 75, 65, 95, 72, 48 + i>>

H0_DOMAIN_SEP == DomainSep(0)

H1_DOMAIN_SEP == DomainSep(1)

H2_DOMAIN_SEP == DomainSep(2)

H3_DOMAIN_SEP == DomainSep(3)

H4_DOMAIN_SEP == DomainSep(4)

H5_DOMAIN_SEP == DomainSep(5)

\* the sponge: absorbs the input bytes in order into one accumulator
RECURSIVE Absorb(_, _)
Absorb(input, n) ==
    IF n = 0 THEN 7
    ELSE (Absorb(input, n - 1) * 131 + input[n] + 1) % 65521

\* Sha3_256: a fixed function of the whole input to a digest of HashLen bytes
Sha3_256(input) ==
    LET a == Absorb(input, Len(input))
    IN  [i \in 1..HashLen |-> ((a \div (1 + 2 * (i - 1))) + 89 * i + a * i) % 256]

\* ScalarField::from_be_bytes_mod_order
RECURSIVE BeValueModOrder(_, _)
BeValueModOrder(bytes, n) ==
    IF n = 0 THEN 0
    ELSE (BeValueModOrder(bytes, n - 1) * 256 + bytes[n]) % Q

from_be_bytes_mod_order(bytes) == BeValueModOrder(bytes, Len(bytes))

h0(id_u, r_u) ==
    from_be_bytes_mod_order(Sha3_256(H0_DOMAIN_SEP \o id_u \o serialize_g1(r_u)))

\* variant of h1 that does not absorb the identity
h1_without_id(id_ms) == from_be_bytes_mod_order(Sha3_256(H1_DOMAIN_SEP))

h1(id_ms) == from_be_bytes_mod_order(Sha3_256(H1_DOMAIN_SEP \o id_ms))

\* iteration ceiling of the H2 / H5 extension loop
KdfLoopLimit == 100

\* block j of the KDF output: the first block is hashed without a counter,
\* the block appended by loop iteration j with counter j - 1
KdfBlock(base, j) ==
    IF j = 0 THEN Sha3_256(base) ELSE Sha3_256(base \o BeBytes(j - 1, 4))

\* iterations the while loop of h2 / h5 runs before result_bytes is long enough
KdfIterations(output_len) ==
    IF output_len <= HashLen THEN 0
    ELSE (output_len - HashLen + HashLen - 1) \div HashLen

\* variant of Kdf whose blocks also absorb the requested length
KdfBoundToLength(base, output_len) ==
    IF KdfIterations(output_len) > KdfLoopLimit THEN Err("HashError")
    ELSE Ok([i \in 1..output_len |->
                KdfBlock(base \o BeBytes(output_len, 4),
                         (i - 1) \div HashLen)[((i - 1) % HashLen) + 1]])

\* variant of Kdf that gives up one iteration early
KdfCeilingEarly(base, output_len) ==
    IF KdfIterations(output_len) >= KdfLoopLimit THEN Err("HashError")
    ELSE Ok([i \in 1..output_len |->
                KdfBlock(base, (i - 1) \div HashLen)[((i - 1) % HashLen) + 1]])

\* the KDF of h2 and h5: digest of the base input, extended by the while loop
\* and truncated; the loop gives up once its counter has passed the ceiling
Kdf(base, output_len) ==
    IF KdfIterations(output_len) > KdfLoopLimit THEN Err("HashError")
    ELSE Ok([i \in 1..output_len |->
                KdfBlock(base, (i - 1) \div HashLen)[((i - 1) % HashLen) + 1]])

h2(g_x, output_len) == Kdf(H2_DOMAIN_SEP \o serialize_gt(g_x), output_len)

h3(id_u, r_u, x_pub, timestamp) ==
    from_be_bytes_mod_order(
        Sha3_256(H3_DOMAIN_SEP \o id_u \o serialize_g1(r_u)
                 \o serialize_g1(x_pub) \o BeBytes(timestamp, 8)))

\* the bytes h4 feeds to the hasher, in the order of its update calls
h4_input(id_u, id_ms, x_pub, y_pub, timestamp) ==
    H4_DOMAIN_SEP \o id_u \o id_ms \o serialize_g1(x_pub)
    \o serialize_g1(y_pub) \o BeBytes(timestamp, 8)

h4(id_u, id_ms, x_pub, y_pub, timestamp) ==
    from_be_bytes_mod_order(
        Sha3_256(h4_input(id_u, id_ms, x_pub, y_pub, timestamp)))

\* the bytes h5 feeds to the hasher of its first digest
h5_input(k_intermediate_g1, id_u, id_ms, x_pub, y_pub) ==
    H5_DOMAIN_SEP \o serialize_g1(k_intermediate_g1) \o id_u \o id_ms
    \o serialize_g1(x_pub) \o serialize_g1(y_pub)

h5(k_intermediate_g1, id_u, id_ms, x_pub, y_pub, key_len_bytes) ==
    Kdf(h5_input(k_intermediate_g1, id_u, id_ms, x_pub, y_pub),
        key_len_bytes)

\* ------------------------------------------------------------------------
\* Time oracle (lib.rs)
\* ------------------------------------------------------------------------
ALLOWED_SKEW_SECONDS == 300

\* the largest timestamp: u64::MAX, with the 64 bits scaled to TimestampBits
MaxTimestamp == 2^TimestampBits - 1

\* variant of is_timestamp_fresh that bounds only timestamps of the future
is_timestamp_fresh_future_only(timestamp, current_ts) ==
    IF current_ts >= timestamp THEN TRUE
    ELSE timestamp - current_ts <= ALLOWED_SKEW_SECONDS

\* variant of is_timestamp_fresh that bounds only timestamps of the past
is_timestamp_fresh_past_only(timestamp, current_ts) ==
    IF current_ts >= timestamp
    THEN current_ts - timestamp <= ALLOWED_SKEW_SECONDS
    ELSE TRUE

\* variant of is_timestamp_fresh that subtracts with wrap-around instead of
\* ordering the two values first
is_timestamp_fresh_wrapping(timestamp, current_ts) ==
    LET diff == (current_ts - timestamp) % (MaxTimestamp + 1)
    IN  diff <= ALLOWED_SKEW_SECONDS

\* is_timestamp_fresh, evaluated when the clock shows current_ts
is_timestamp_fresh(timestamp, current_ts) ==
    LET diff == IF current_ts >= timestamp
                THEN current_ts - timestamp
                ELSE timestamp - current_ts
    IN  diff <= ALLOWED_SKEW_SECONDS

\* ------------------------------------------------------------------------
\* RC algorithms (rc.rs)
\* ------------------------------------------------------------------------
\* variant of setup that multiplies P by the wrong halves of the master key
setup_swapped(s, s_hat) ==
    IF s = 0 \/ s_hat = 0 THEN Err("CryptoError")
    ELSE Ok([params |-> [p |-> G1Generator,
                         p_pub |-> GMul(G1Generator, s_hat),
                         p_pub_hat |-> GMul(G1Generator, s),
                         g |-> Pairing(G1Generator, G2Generator)],
             msk |-> [s |-> s, s_hat |-> s_hat]])

\* setup, with the two scalars the RNG yields
setup(s, s_hat) ==
    IF s = 0 \/ s_hat = 0 THEN Err("CryptoError")
    ELSE Ok([params |-> [p |-> G1Generator,
                         p_pub |-> GMul(G1Generator, s),
                         p_pub_hat |-> GMul(G1Generator, s_hat),
                         g |-> Pairing(G1Generator, G2Generator)],
             msk |-> [s |-> s, s_hat |-> s_hat]])

\* variant of register_user that signs with s_hat instead of s
register_user_with_s_hat(msk, id_u, r_u_scalar) ==
    IF r_u_scalar = 0 THEN Err("CryptoError")
    ELSE LET r_u_point == GMul(G1Generator, r_u_scalar)
             h_u == h0(id_u, r_u_point)
             s_mul_h_u == FMul(msk.s_hat, h_u)
         IN  Ok([r_u |-> r_u_point, sid_u |-> FAdd(r_u_scalar, s_mul_h_u)])

\* variant of register_user that accepts a zero draw
register_user_zero_unchecked(msk, id_u, r_u_scalar) ==
    LET r_u_point == GMul(G1Generator, r_u_scalar)
        h_u == h0(id_u, r_u_point)
        s_mul_h_u == FMul(msk.s, h_u)
    IN  Ok([r_u |-> r_u_point, sid_u |-> FAdd(r_u_scalar, s_mul_h_u)])

\* register_user, with the scalar the RNG yields
register_user(msk, id_u, r_u_scalar) ==
    IF r_u_scalar = 0 THEN Err("CryptoError")
    ELSE LET r_u_point == GMul(G1Generator, r_u_scalar)
             h_u == h0(id_u, r_u_point)
             s_mul_h_u == FMul(msk.s, h_u)
         IN  Ok([r_u |-> r_u_point, sid_u |-> FAdd(r_u_scalar, s_mul_h_u)])

\* variant of register_server that inverts s + h1 instead of s_hat + h1
register_server_with_s(msk, id_ms) ==
    LET h_ms == h1(id_ms)
        denominator == FAdd(msk.s, h_ms)
    IN  IF denominator = 0 THEN Err("CryptoError")
        ELSE Ok([sid_ms |-> GMul(G2Generator, FInverse(denominator))])

\* variant of register_server without the test for a zero denominator
register_server_zero_unchecked(msk, id_ms) ==
    Ok([sid_ms |-> GMul(G2Generator, FInverse(FAdd(msk.s_hat, h1(id_ms))))])

\* register_server
register_server(msk, id_ms) ==
    LET h_ms == h1(id_ms)
        denominator == FAdd(msk.s_hat, h_ms)
    IN  IF denominator = 0 THEN Err("CryptoError")
        ELSE IF FInverse(denominator) = 0 THEN Err("CryptoError")
        ELSE Ok([sid_ms |-> GMul(G2Generator, FInverse(denominator))])

\* ------------------------------------------------------------------------
\* User half (user.rs)
\* ------------------------------------------------------------------------
\* initiate_authentication, with the scalar x the RNG yields and the clock
initiate_authentication(usk, user_id, server_id, params, x, current_ts) ==
    IF x = 0 THEN Err("CryptoError")
    ELSE
    LET temp_x_pub == GMul(params.p, x)
        g_x == GtMulBigint(params.g, x)
        h_ms == h1(server_id)
        h_ms_p == GMul(params.p, h_ms)
        inner_m == GAdd(params.p_pub_hat, h_ms_p)
        m == GMul(inner_m, x)
        r_u_bytes == serialize_g1(usk.r_u)
        x_pub_bytes == serialize_g1(temp_x_pub)
        n_payload_len == Len(user_id) + Len(r_u_bytes) + Len(x_pub_bytes)
        h2_output == h2(g_x, n_payload_len)
        n_payload == user_id \o r_u_bytes \o x_pub_bytes
        timestamp_u == current_ts
        h_3 == h3(user_id, usk.r_u, temp_x_pub, timestamp_u)
        sigma == FAdd(usk.sid_u, FMul(x, h_3))
    IN  IF ~h2_output.ok THEN h2_output
        ELSE IF Len(h2_output.val) # Len(n_payload) THEN Err("HashError")
        ELSE Ok([request |-> [m |-> m,
                              n |-> XorSeq(h2_output.val, n_payload),
                              sigma |-> sigma,
                              timestamp |-> timestamp_u],
                 state |-> [x |-> x,
                            temp_x_pub |-> temp_x_pub,
                            user_id |-> user_id,
                            r_u |-> usk.r_u]])

\* variant of user_shared_point that leaves x * t out of the scalar
user_shared_point_without_t(usk, state, response) ==
    GMul(response.y, usk.sid_u)

\* step 3 of process_server_response: K_u-ms = (SID_u + x * t) * Y
user_shared_point(usk, state, response) ==
    LET xt == FMul(state.x, response.t)
        sidu_plus_xt == FAdd(usk.sid_u, xt)
    IN  GMul(response.y, sidu_plus_xt)

\* variant of response_t_matches that accepts every t
response_t_unchecked(computed_t, response) == TRUE

\* step 2 of process_server_response: the recomputed t equals the received t
response_t_matches(computed_t, response) == computed_t = response.t

\* variant of process_server_response that compares t before it looks at
\* the timestamp
process_server_response_t_first(usk, state, response, server_id, params, key_len_bytes, current_ts) ==
    LET computed_t == h4(state.user_id, server_id, state.temp_x_pub,
                         response.y, response.timestamp)
        k_u_ms_point == user_shared_point(usk, state, response)
        session_key_bytes == h5(k_u_ms_point, state.user_id, server_id,
                                state.temp_x_pub, response.y, key_len_bytes)
    IN  IF ~response_t_matches(computed_t, response)
        THEN Err("ServerResponseVerificationFailed")
        ELSE IF ~is_timestamp_fresh(response.timestamp, current_ts)
        THEN Err("InvalidTimestamp")
        ELSE IF ~session_key_bytes.ok THEN session_key_bytes
        ELSE Ok(session_key_bytes.val)

\* process_server_response, evaluated when the clock shows current_ts
process_server_response(usk, state, response, server_id, params, key_len_bytes, current_ts) ==
    IF ~is_timestamp_fresh(response.timestamp, current_ts)
    THEN Err("InvalidTimestamp")
    ELSE
    LET computed_t == h4(state.user_id, server_id, state.temp_x_pub,
                         response.y, response.timestamp)
        k_u_ms_point == user_shared_point(usk, state, response)
        session_key_bytes == h5(k_u_ms_point, state.user_id, server_id,
                                state.temp_x_pub, response.y, key_len_bytes)
    IN  IF ~response_t_matches(computed_t, response)
        THEN Err("ServerResponseVerificationFailed")
        ELSE IF ~session_key_bytes.ok THEN session_key_bytes
        ELSE Ok(session_key_bytes.val)

\* ------------------------------------------------------------------------
\* Server half (server.rs)
\* ------------------------------------------------------------------------
\* variant of signature_holds that accepts every sigma
signature_unchecked(params, sigma, w, h_3, x_prime) == TRUE

\* step 5 of process_user_request: sigma * P = W + h3 * X'
signature_holds(params, sigma, w, h_3, x_prime) ==
    LET h3_x_prime == GMul(x_prime, h_3)
        rhs == GAdd(w, h3_x_prime)
        sigma_p == GMul(params.p, sigma)
    IN  sigma_p = rhs

\* variant of server_w that multiplies h0 by Ppub_hat instead of Ppub
server_w_with_p_pub_hat(params, id_u_prime, r_u_prime) ==
    LET h_0 == h0(id_u_prime, r_u_prime)
        h0_ppub == GMul(params.p_pub_hat, h_0)
    IN  GAdd(r_u_prime, h0_ppub)

\* step 4 of process_user_request: W = Ru' + h0(IDu' || Ru') * Ppub
server_w(params, id_u_prime, r_u_prime) ==
    LET h_0 == h0(id_u_prime, r_u_prime)
        h0_ppub == GMul(params.p_pub, h_0)
    IN  GAdd(r_u_prime, h0_ppub)

\* steps 1-5 of process_user_request: freshness, unmasking of N, decoding and
\* the signature check; yields the values recovered from N
verify_user_request(ssk, request, params, current_ts) ==
    IF ~is_timestamp_fresh(request.timestamp, current_ts)
    THEN Err("InvalidTimestamp")
    ELSE
    LET g_x == Pairing(request.m, ssk.sid_ms)
        g1_compressed_size == G1Size
        n_len == Len(request.n)
    IN
    IF n_len <= g1_compressed_size * 2 THEN Err("Deserialization")
    ELSE
    LET id_len == n_len - 2 * g1_compressed_size
        ru_offset == id_len
        x_offset == id_len + g1_compressed_size
        h2_output == h2(g_x, n_len)
    IN
    IF ~h2_output.ok THEN h2_output
    ELSE IF Len(h2_output.val) # n_len THEN Err("HashError")
    ELSE
    LET n_payload == XorSeq(h2_output.val, request.n)
        id_u_prime == SubSeq(n_payload, 1, id_len)
        r_u_prime_bytes == SubSeq(n_payload, ru_offset + 1, x_offset)
        x_prime_bytes == SubSeq(n_payload, x_offset + 1, n_len)
        r_u_de == deserialize_g1(r_u_prime_bytes)
        x_de == deserialize_g1(x_prime_bytes)
    IN
    IF ~r_u_de.ok THEN r_u_de
    ELSE IF ~x_de.ok THEN x_de
    ELSE
    LET r_u_prime == r_u_de.val
        x_prime == x_de.val
        w == server_w(params, id_u_prime, r_u_prime)
        h_3 == h3(id_u_prime, r_u_prime, x_prime, request.timestamp)
    IN
    IF ~signature_holds(params, request.sigma, w, h_3, x_prime)
    THEN Err("SignatureVerificationFailed")
    ELSE Ok([id_u_prime |-> id_u_prime, r_u_prime |-> r_u_prime,
             x_prime |-> x_prime, w |-> w])

\* process_user_request, with the scalar y the RNG yields (drawn only once
\* the signature has been verified) and the clock
process_user_request(ssk, request, own_id, params, y, key_len_bytes, current_ts) ==
    LET verified == verify_user_request(ssk, request, params, current_ts)
    IN
    IF ~verified.ok THEN verified
    ELSE IF y = 0 THEN Err("CryptoError")
    ELSE
    LET id_u_prime == verified.val.id_u_prime
        x_prime == verified.val.x_prime
        w == verified.val.w
        y_pub == GMul(params.p, y)
        timestamp_ms == current_ts
        t == h4(id_u_prime, own_id, x_prime, y_pub, timestamp_ms)
        tx_prime == GMul(x_prime, t)
        inner_k == GAdd(tx_prime, w)
        k_ms_u_point == GMul(inner_k, y)
        session_key_bytes == h5(k_ms_u_point, id_u_prime, own_id, x_prime,
                                y_pub, key_len_bytes)
    IN
    IF ~session_key_bytes.ok THEN session_key_bytes
    ELSE Ok([response |-> [t |-> t, y |-> y_pub, timestamp |-> timestamp_ms],
             session_key |-> session_key_bytes.val])

\* ------------------------------------------------------------------------
\* MS application (aaka_ms_server main.rs) and the wire format of the user
\* application (aaka_user_app main.rs)
\* ------------------------------------------------------------------------
\* hex::encode: two digits per byte, the high one first (a digit is 0..15)
RECURSIVE hex_encode(_)
hex_encode(bytes) ==
    IF bytes = <<>> THEN <<>>
    ELSE <<Head(bytes) \div 16, Head(bytes) % 16>> \o hex_encode(Tail(bytes))

RECURSIVE HexPairs(_)
HexPairs(digits) ==
    IF digits = <<>> THEN <<>>
    ELSE <<16 * digits[1] + digits[2]>> \o HexPairs(Tail(Tail(digits)))

\* hex::decode: fails on an odd number of digits
hex_decode(digits) ==
    IF Len(digits) % 2 # 0 THEN Err("Hex") ELSE Ok(HexPairs(digits))

\* canonical compressed encoding of a scalar: little endian, one byte per
\* byte of the limbs
serialize_scalar(v) == LeBytes(v, NumLimbs * LimbBytes)

\* ScalarField::deserialize_compressed: fails on a value that is not below q
deserialize_scalar(bytes) ==
    IF Len(bytes) = NumLimbs * LimbBytes
       /\ (\A i \in 2..Len(bytes) : bytes[i] = 0)
       /\ bytes[1] < Q
    THEN Ok(bytes[1])
    ELSE Err("Deserialization")

\* ark_to_hex of a G1 point and of a scalar
ark_to_hex_g1(item) == hex_encode(serialize_g1(item))

ark_to_hex_scalar(item) == hex_encode(serialize_scalar(item))

\* hex_to_ark to a G1 point and to a scalar
hex_to_ark_g1(hex_str) ==
    LET bytes == hex_decode(hex_str)
    IN  IF ~bytes.ok THEN bytes ELSE deserialize_g1(bytes.val)

hex_to_ark_scalar(hex_str) ==
    LET bytes == hex_decode(hex_str)
    IN  IF ~bytes.ok THEN bytes ELSE deserialize_scalar(bytes.val)

\* the AuthRequestPayload the user application posts for a request
auth_request_payload(request) ==
    [m_hex |-> ark_to_hex_g1(request.m),
     n |-> hex_encode(request.n),
     sigma_hex |-> ark_to_hex_scalar(request.sigma),
     timestamp |-> request.timestamp]

\* seed of the RNG the MS process is started with
MS_RNG_SEED == 67890

\* key_len_bytes of the MS: 32, the length of one digest
MsKeyLen == HashLen

\* the scalar the RNG clone of handle_auth_request yields first
ms_cloned_draw(inner_rng) == RandAt(inner_rng, 0)

\* the body handle_auth_request answers a successful call with
auth_success_response(response, session_key) ==
    [message |-> "Authentication successful",
     response |-> [t_hex |-> ark_to_hex_scalar(response.t),
                   y_hex |-> ark_to_hex_g1(response.y),
                   timestamp |-> response.timestamp],
     session_key_hex |-> hex_encode(session_key)]

\* the answer of handle_auth_request to the result of the library call
auth_response(server_result) ==
    IF server_result.ok
    THEN Ok(auth_success_response(server_result.val.response,
                                  server_result.val.session_key))
    ELSE Err("AppError")

\* the UserAuthRequest handle_auth_request builds from the decoded fields
decoded_request(m, n_bytes, sigma, payload) ==
    IF ~m.ok \/ ~n_bytes.ok \/ ~sigma.ok THEN Err("AppError")
    ELSE Ok([m |-> m.val, n |-> n_bytes.val, sigma |-> sigma.val,
             timestamp |-> payload.timestamp])

\* the library call of handle_auth_request, with the RNG clone
ms_library_call(ssk, own_id, params, inner_rng, decoded, current_ts) ==
    IF ~decoded.ok THEN decoded
    ELSE process_user_request(ssk, decoded.val, own_id, params,
                              ms_cloned_draw(inner_rng), MsKeyLen,
                              current_ts)

\* handle_auth_request on the state inner = (ssk, server_id, params, rng),
\* when the clock shows current_ts
handle_auth_request(ssk, own_id, params, inner_rng, payload, current_ts) ==
    auth_response(
        ms_library_call(ssk, own_id, params, inner_rng,
                        decoded_request(hex_to_ark_g1(payload.m_hex),
                                        hex_decode(payload.n),
                                        hex_to_ark_scalar(payload.sigma_hex),
                                        payload),
                        current_ts))

\* ------------------------------------------------------------------------
\* Threshold share layer (lib.rs MasterSecretKey::into_shares / from_shares
\* over the Shamir sharing of the blahaj crate, GF(256))
\* ------------------------------------------------------------------------
\* GF(256) of the sharing (field.rs of the crate): powers of the generator 2
\* modulo x^8 + x^4 + x^3 + x^2 + 1, EXP_TABLE[i + 1] = 2^i
EXP_TABLE ==
    << 1, 2, 4, 8, 16, 32, 64, 128, 29, 58, 116, 232, 205, 135, 19, 38,
       76, 152, 45, 90, 180, 117, 234, 201, 143, 3, 6, 12, 24, 48, 96, 192,
       157, 39, 78, 156, 37, 74, 148, 53, 106, 212, 181, 119, 238, 193, 159, 35,
       70, 140, 5, 10, 20, 40, 80, 160, 93, 186, 105, 210, 185, 111, 222, 161,
       95, 190, 97, 194, 153, 47, 94, 188, 101, 202, 137, 15, 30, 60, 120, 240,
       253, 231, 211, 187, 107, 214, 177, 127, 254, 225, 223, 163, 91, 182, 113, 226,
       217, 175, 67, 134, 17, 34, 68, 136, 13, 26, 52, 104, 208, 189, 103, 206,
       129, 31, 62, 124, 248, 237, 199, 147, 59, 118, 236, 197, 151, 51, 102, 204,
       133, 23, 46, 92, 184, 109, 218, 169, 79, 158, 33, 66, 132, 21, 42, 84,
       168, 77, 154, 41, 82, 164, 85, 170, 73, 146, 57, 114, 228, 213, 183, 115,
       230, 209, 191, 99, 198, 145, 63, 126, 252, 229, 215, 179, 123, 246, 241, 255,
       227, 219, 171, 75, 150, 49, 98, 196, 149, 55, 110, 220, 165, 87, 174, 65,
       130, 25, 50, 100, 200, 141, 7, 14, 28, 56, 112, 224, 221, 167, 83, 166,
       81, 162, 89, 178, 121, 242, 249, 239, 195, 155, 43, 86, 172, 69, 138, 9,
       18, 36, 72, 144, 61, 122, 244, 245, 247, 243, 251, 235, 203, 139, 11, 22,
       44, 88, 176, 125, 250, 233, 207, 131, 27, 54, 108, 216, 173, 71, 142 >>

\* LOG_TABLE[a + 1] = the exponent i with 2^i = a (entry of 0 unused)
LOG_TABLE ==
    << 0, 0, 1, 25, 2, 50, 26, 198, 3, 223, 51, 238, 27, 104, 199, 75,
       4, 100, 224, 14, 52, 141, 239, 129, 28, 193, 105, 248, 200, 8, 76, 113,
       5, 138, 101, 47, 225, 36, 15, 33, 53, 147, 142, 218, 240, 18, 130, 69,
       29, 181, 194, 125, 106, 39, 249, 185, 201, 154, 9, 120, 77, 228, 114, 166,
       6, 191, 139, 98, 102, 221, 48, 253, 226, 152, 37, 179, 16, 145, 34, 136,
       54, 208, 148, 206, 143, 150, 219, 189, 241, 210, 19, 92, 131, 56, 70, 64,
       30, 66, 182, 163, 195, 72, 126, 110, 107, 58, 40, 84, 250, 133, 186, 61,
       202, 94, 155, 159, 10, 21, 121, 43, 78, 212, 229, 172, 115, 243, 167, 87,
       7, 112, 192, 247, 140, 128, 99, 13, 103, 74, 222, 237, 49, 197, 254, 24,
       227, 165, 153, 119, 38, 184, 180, 124, 17, 68, 146, 217, 35, 32, 137, 46,
       55, 63, 209, 91, 149, 188, 207, 205, 144, 135, 151, 178, 220, 252, 190, 97,
       242, 86, 211, 171, 20, 42, 93, 158, 132, 60, 57, 83, 71, 109, 65, 162,
       31, 45, 67, 216, 183, 123, 164, 118, 196, 23, 73, 236, 127, 12, 111, 246,
       108, 161, 59, 82, 41, 157, 85, 170, 251, 96, 134, 177, 187, 204, 62, 90,
       203, 89, 95, 176, 156, 169, 160, 81, 11, 245, 22, 235, 122, 117, 44, 215,
       79, 174, 213, 233, 230, 231, 173, 232, 116, 214, 244, 234, 168, 80, 88, 175 >>

GfOrder == 255

\* Add / Sub for GF256: xor
GfAdd(a, b) == Xor8(a, b)

\* Mul for GF256
GfMul(a, b) ==
    IF a = 0 \/ b = 0 THEN 0
    ELSE EXP_TABLE[((LOG_TABLE[a + 1] + LOG_TABLE[b + 1]) % GfOrder) + 1]

\* Div for GF256 (callers never divide by 0)
GfDiv(a, b) ==
    IF a = 0 THEN 0
    ELSE EXP_TABLE[((LOG_TABLE[a + 1] + GfOrder - LOG_TABLE[b + 1]) % GfOrder) + 1]

ElementBytes == NumLimbs * LimbBytes

\* bytemuck::cast([self.s.0.0, self.s_hat.0.0]): the stored limbs of s and
\* s_hat as 64 bytes
msk_to_bytes(msk) ==
    LeBytes(MontgomeryForm(msk.s), ElementBytes)
    \o LeBytes(MontgomeryForm(msk.s_hat), ElementBytes)

\* ScalarField::from(BigInt(limbs)), i.e. from_bigint(..).unwrap(): the limbs
\* are read as an integer, which becomes the value of the element; an integer
\* that is not below q makes unwrap panic
scalar_from_limbs(bytes) ==
    IF (\A i \in 4..Len(bytes) : bytes[i] = 0)
       /\ bytes[1] + 256 * bytes[2] + 65536 * bytes[3] < Q
    THEN Ok(bytes[1] + 256 * bytes[2] + 65536 * bytes[3])
    ELSE Err("Panic")

\* coefficient of degree d of the dealer's polynomial for byte j, for the
\* draw c of the dealer's RNG: a non-zero byte
DealerCoefficient(c, j, d) == ((c + 7 * j + 31 * d) % 255) + 1

\* random_polynomial: k - 1 random non-zero coefficients, then the secret
random_polynomial(secret_byte, k, c, j) ==
    [d \in 1..k |-> IF d = k THEN secret_byte
                    ELSE DealerCoefficient(c, j, k - d)]

\* value of the polynomial at x (fold acc * x + coefficient)
RECURSIVE PolyEval(_, _, _)
PolyEval(poly, x, n) ==
    IF n = 0 THEN 0 ELSE GfAdd(GfMul(PolyEval(poly, x, n - 1), x), poly[n])

\* Sharks(k).dealer(secret).take(n): the shares x = 1..n
deal_shares(k, secret, n, c) ==
    [x \in 1..n |->
        [x |-> x,
         y |-> [j \in 1..Len(secret) |->
                   PolyEval(random_polynomial(secret[j], k, c, j), x, k)]]]

\* product over the shares j with another x of x_j / (x_j - x_i)
RECURSIVE LagrangeProduct(_, _, _)
LagrangeProduct(shares, i, n) ==
    IF n = 0 THEN 1
    ELSE IF shares[n].x = shares[i].x THEN LagrangeProduct(shares, i, n - 1)
    ELSE GfMul(LagrangeProduct(shares, i, n - 1),
               GfDiv(shares[n].x, GfAdd(shares[n].x, shares[i].x)))

\* Lagrange coefficient of share i for the value at 0
LagrangeAtZero(shares, i) == LagrangeProduct(shares, i, Len(shares))

\* sum over the shares of coefficient times byte j
RECURSIVE InterpolateByte(_, _, _, _)
InterpolateByte(shares, coeff, j, n) ==
    IF n = 0 THEN 0
    ELSE GfAdd(InterpolateByte(shares, coeff, j, n - 1),
               GfMul(coeff[n], shares[n].y[j]))

InterpolateWith(shares, coeff) ==
    [j \in 1..Len(shares[1].y) |-> InterpolateByte(shares, coeff, j, Len(shares))]

\* math::interpolate over all the shares handed in
interpolate(shares) ==
    InterpolateWith(shares,
                    [i \in 1..Len(shares) |-> LagrangeAtZero(shares, i)] \o <<>>)

\* Sharks(k).recover(shares)
recover(k, shares) ==
    LET keys == {shares[i].x : i \in 1..Len(shares)}
    IN  IF \E i \in 1..Len(shares) : Len(shares[i].y) # Len(shares[1].y)
        THEN Err("Other")
        ELSE IF keys = {} \/ Cardinality(keys) < k THEN Err("Other")
        ELSE Ok(interpolate(shares))

\* MasterSecretKey::into_shares, with the draw c of the dealer's RNG
into_shares(msk, n, c) == deal_shares(n % 256, msk_to_bytes(msk), n, c)

\* MasterSecretKey::from_shares
from_shares(shares, n) ==
    LET recovered == recover(n % 256, shares)
    IN  IF ~recovered.ok THEN recovered
        ELSE IF Len(recovered.val) # 2 * ElementBytes THEN Err("Other")
        ELSE
        LET s == scalar_from_limbs(SubSeq(recovered.val, 1, ElementBytes))
            s_hat == scalar_from_limbs(
                         SubSeq(recovered.val, ElementBytes + 1,
                                2 * ElementBytes))
        IN  IF ~s.ok THEN s
            ELSE IF ~s_hat.ok THEN s_hat
            ELSE Ok([s |-> s.val, s_hat |-> s_hat.val])

\* Vec::from(&Share): the x byte followed by the y bytes
share_to_bytes(share) == <<share.x>> \o share.y

\* Share::try_from(&[u8])
share_try_from(bytes) ==
    IF Len(bytes) < 2 THEN Err("ShareTooShort")
    ELSE Ok([x |-> bytes[1], y |-> Tail(bytes)])

\* ------------------------------------------------------------------------
\* One deployment: RC, one user, one MS and the messages between them
\* (the flow of the tests of lib.rs, with the network free to alter or
\* replay messages and the clock free to advance)
\* ------------------------------------------------------------------------
VARIABLES
    now,          \* get_current_timestamp()
    rng,          \* the RNG shared by the calls (test_rng of lib.rs)
    setup_res,    \* result of rc::setup
    user_id,      \* identity the user registered under
    usk_res,      \* result of rc::register_user
    server_id,    \* identity the MS registered under
    ssk_res,      \* result of rc::register_server
    target_id,    \* identity the user authenticates against
    init_res,     \* result of user::initiate_authentication
    srv,          \* last call of server::process_user_request
    accepted,     \* requests the MS has accepted so far
    usr           \* last call of user::process_server_response

protoVars == <<now, rng, setup_res, user_id, usk_res, server_id, ssk_res,
               target_id, init_res, srv, accepted, usr>>

\* splitting and rebuilding one master key (test_shares of lib.rs)
VARIABLES
    master,       \* the MasterSecretKey that is split
    node_count,   \* n handed to into_shares
    dealt,        \* the shares into_shares returned, <<>> before the call
    rebuilt       \* last call of MasterSecretKey::from_shares

shareVars == <<master, node_count, dealt, rebuilt>>

\* the RC cluster (InnerRcState of every node of the peer list)
VARIABLES
    rc_params,    \* params of each node
    rc_shares,    \* shares of each node
    rc_rng,       \* rng of each node
    rc_call       \* last call served by a node

rcVars == <<rc_params, rc_shares, rc_rng, rc_call>>

\* one MS process (InnerMsState; ssk, params and server_id are those of the
\* protocol machine)
VARIABLES
    ms_rng,       \* rng of the MS state
    ms_log        \* the calls handle_auth_request served, oldest first

msVars == <<ms_rng, ms_log>>

\* calls of the byte-length hashes h2 and h5
VARIABLES
    kdf_call      \* last call of h2 or h5, and the call before it

kdfVars == <<kdf_call>>

\* the registration handlers in progress on the RC nodes
VARIABLES
    rc_tasks      \* per node: the handler holding the lock of the node's state

lockVars == <<rc_tasks>>

\* identities used by the principals
UserIds == {<<>>, <<97, 98>>}

ServerIds == {<<109>>, <<110>>}

\* key lengths the callers ask for: longer than one digest, and one byte more
\* than the extension loop can deliver
KeyLens == {HashLen + 1, (KdfLoopLimit + 1) * HashLen + 1}

\* the clock at start and the steps it advances by
StartClock == 1000

ClockSteps == {ALLOWED_SKEW_SECONDS, ALLOWED_SKEW_SECONDS + 1}

\* timestamps an altered message may carry when the clock shows current_ts
AlteredStamps(current_ts) ==
    {current_ts - 301, current_ts - 300, current_ts + 300, current_ts + 301}
    \cup {0, MaxTimestamp}

\* what the network can deliver to the MS for a request the user sent
DeliveredRequests(request, current_ts) ==
    {request}
    \cup {[request EXCEPT !.sigma = v] : v \in Fq}
    \cup {[request EXCEPT !.timestamp = ts] : ts \in AlteredStamps(current_ts)}

\* what the network can deliver to the user for a response the MS sent
DeliveredResponses(response, current_ts) ==
    {response}
    \cup {[response EXCEPT !.t = v] : v \in Fq}
    \cup {[response EXCEPT !.y = GAdd(@, 1)]}
    \cup {[response EXCEPT !.timestamp = ts] : ts \in AlteredStamps(current_ts)}

\* no call made yet
NoCall == [result |-> None, drew |-> FALSE]

\* requests and responses the network can deliver now
RequestsInFlight ==
    IF init_res.ok THEN DeliveredRequests(init_res.val.request, now) ELSE {}

ResponsesInFlight ==
    IF srv.result.ok
    THEN DeliveredResponses(srv.result.val.response, now)
    ELSE {}

ProtoInit ==
    /\ now = StartClock
    /\ \E seed \in Seeds : rng = seed_from_u64(seed)
    /\ setup_res = None
    /\ user_id = <<>>
    /\ usk_res = None
    /\ server_id = <<>>
    /\ ssk_res = None
    /\ target_id = <<>>
    /\ init_res = None
    /\ srv = NoCall
    /\ accepted = {}
    /\ usr = NoCall

Setup ==
    /\ setup_res = None
    /\ CanDraw(rng, 2)
    /\ setup_res' = setup(RandAt(rng, 0), RandAt(rng, 1))
    /\ rng' = Drawn(rng, 2)
    /\ UNCHANGED <<now, user_id, usk_res, server_id, ssk_res, target_id,
                   init_res, srv, accepted, usr>>
    /\ UNCHANGED <<shareVars, rcVars, msVars, kdfVars, lockVars>>

RegisterUser(id_u) ==
    /\ setup_res.ok
    /\ usk_res = None
    /\ CanDraw(rng, 1)
    /\ user_id' = id_u
    /\ usk_res' = register_user(setup_res.val.msk, id_u, RandAt(rng, 0))
    /\ rng' = Drawn(rng, 1)
    /\ UNCHANGED <<now, setup_res, server_id, ssk_res, target_id, init_res,
                   srv, accepted, usr>>
    /\ UNCHANGED <<shareVars, rcVars, msVars, kdfVars, lockVars>>

RegisterServer(id_ms) ==
    /\ setup_res.ok
    /\ ssk_res = None
    /\ server_id' = id_ms
    /\ ssk_res' = register_server(setup_res.val.msk, id_ms)
    /\ UNCHANGED <<now, rng, setup_res, user_id, usk_res, target_id,
                   init_res, srv, accepted, usr>>
    /\ UNCHANGED <<shareVars, rcVars, msVars, kdfVars, lockVars>>

InitiateAuthentication(id_ms) ==
    /\ usk_res.ok
    /\ init_res = None
    /\ CanDraw(rng, 1)
    /\ target_id' = id_ms
    /\ init_res' = initiate_authentication(usk_res.val, user_id, id_ms,
                                           setup_res.val.params,
                                           RandAt(rng, 0), now)
    /\ rng' = Drawn(rng, 1)
    /\ UNCHANGED <<now, setup_res, user_id, usk_res, server_id, ssk_res,
                   srv, accepted, usr>>
    /\ UNCHANGED <<shareVars, rcVars, msVars, kdfVars, lockVars>>

ProcessUserRequest(request, key_len_bytes) ==
    /\ ssk_res.ok
    /\ request \in RequestsInFlight
    /\ CanDraw(rng, 1)
    /\ LET drew == verify_user_request(ssk_res.val, request,
                                       setup_res.val.params, now).ok
           y == RandAt(rng, 0)
           result == process_user_request(ssk_res.val, request, server_id,
                                          setup_res.val.params, y,
                                          key_len_bytes, now)
       IN  /\ srv' = [request |-> request,
                      key_len_bytes |-> key_len_bytes, at |-> now,
                      drew |-> drew, y |-> IF drew THEN y ELSE 0,
                      result |-> result]
           /\ rng' = IF drew THEN Drawn(rng, 1) ELSE rng
           /\ accepted' = IF result.ok THEN accepted \cup {request}
                          ELSE accepted
    /\ usr' = NoCall
    /\ UNCHANGED <<now, setup_res, user_id, usk_res, server_id, ssk_res,
                   target_id, init_res>>
    /\ UNCHANGED <<shareVars, rcVars, msVars, kdfVars, lockVars>>

ProcessServerResponse(response, key_len_bytes) ==
    /\ response \in ResponsesInFlight
    /\ usr' = [response |-> response, key_len_bytes |-> key_len_bytes,
               at |-> now,
               result |-> process_server_response(
                              usk_res.val, init_res.val.state, response,
                              target_id, setup_res.val.params,
                              key_len_bytes, now)]
    /\ UNCHANGED <<now, rng, setup_res, user_id, usk_res, server_id,
                   ssk_res, target_id, init_res, srv, accepted>>
    /\ UNCHANGED <<shareVars, rcVars, msVars, kdfVars, lockVars>>

AdvanceClock(d) ==
    /\ now + d <= MaxClock
    /\ now' = now + d
    /\ UNCHANGED <<rng, setup_res, user_id, usk_res, server_id, ssk_res,
                   target_id, init_res, srv, accepted, usr>>
    /\ UNCHANGED <<shareVars, rcVars, msVars, kdfVars, lockVars>>

\* the other machines at rest
NoRebuild == [picked |-> {}, n |-> 0, result |-> None]

SharesIdle ==
    /\ master = [s |-> 0, s_hat |-> 0]
    /\ node_count = 1
    /\ dealt = <<>>
    /\ rebuilt = NoRebuild

Peers == 1..MaxPeers

NoRcCall == [op |-> "none", node |-> 0, result |-> None]

RcIdle ==
    /\ rc_params = [p \in Peers |-> None]
    /\ rc_shares = [p \in Peers |-> <<>>]
    /\ rc_rng = [p \in Peers |-> seed_from_u64(0)]
    /\ rc_call = NoRcCall

ProtoIdle ==
    /\ now = StartClock
    /\ rng = seed_from_u64(0)
    /\ setup_res = None
    /\ user_id = <<>>
    /\ usk_res = None
    /\ server_id = <<>>
    /\ ssk_res = None
    /\ target_id = <<>>
    /\ init_res = None
    /\ srv = NoCall
    /\ accepted = {}
    /\ usr = NoCall

\* no registration handler in progress
NoTask == [kind |-> "none", id |-> <<>>, next |-> 0, collected |-> <<>>]

LocksIdle == rc_tasks = [p \in Peers |-> NoTask]

\* the MS process as it is started
MsInit ==
    /\ ms_rng = seed_from_u64(MS_RNG_SEED % (MaxSeed + 1))
    /\ ms_log = <<>>

\* no call of h2 or h5 made yet
NoKdfCall ==
    [fn |-> "none", args |-> <<>>, len |-> 0, result |-> None,
     prev |-> [len |-> 0, result |-> None]]

KdfIdle == kdf_call = NoKdfCall

vars == <<protoVars, shareVars, rcVars, msVars, kdfVars, lockVars>>

Init == ProtoInit /\ SharesIdle /\ RcIdle /\ MsInit /\ KdfIdle /\ LocksIdle

Next ==
    \/ Setup
    \/ \E id_u \in UserIds : RegisterUser(id_u)
    \/ \E id_ms \in ServerIds : RegisterServer(id_ms)
    \/ \E id_ms \in ServerIds : InitiateAuthentication(id_ms)
    \/ \E k \in KeyLens, request \in RequestsInFlight :
          ProcessUserRequest(request, k)
    \/ \E k \in KeyLens, response \in ResponsesInFlight :
          ProcessServerResponse(response, k)
    \/ \E d \in ClockSteps : AdvanceClock(d)

Spec == Init /\ [][Next]_vars

\* ------------------------------------------------------------------------
\* One master key, split by into_shares and rebuilt by from_shares from
\* some of the shares (test_shares of lib.rs, with every choice of shares
\* and of the threshold handed to from_shares)
\* ------------------------------------------------------------------------
DealerDraws == 0..MaxDealerDraw

\* the shares of the given indices, in the order they were dealt
RECURSIVE SelectShares(_, _, _)
SelectShares(all, picked, i) ==
    IF i = 0 THEN <<>>
    ELSE SelectShares(all, picked, i - 1)
         \o (IF i \in picked THEN <<all[i]>> ELSE <<>>)

SharesInit ==
    /\ \E a \in Fq, b \in Fq : master = [s |-> a, s_hat |-> b]
    /\ node_count \in 1..MaxNodes
    /\ dealt = <<>>
    /\ rebuilt = NoRebuild

IntoShares(c) ==
    /\ dealt = <<>>
    /\ dealt' = into_shares(master, node_count, c)
    /\ UNCHANGED <<master, node_count, rebuilt>>
    /\ UNCHANGED <<protoVars, rcVars, msVars, kdfVars, lockVars>>

FromShares(picked, threshold) ==
    /\ dealt # <<>>
    /\ rebuilt' = [picked |-> picked, n |-> threshold,
                   result |-> from_shares(
                                  SelectShares(dealt, picked, Len(dealt)),
                                  threshold)]
    /\ UNCHANGED <<master, node_count, dealt>>
    /\ UNCHANGED <<protoVars, rcVars, msVars, kdfVars, lockVars>>

SharesNext ==
    \/ \E c \in DealerDraws : IntoShares(c)
    \/ \E picked \in SUBSET (1..node_count), threshold \in 1..node_count :
          FromShares(picked, threshold)

SharesSpecInit == SharesInit /\ ProtoIdle /\ RcIdle /\ MsInit /\ KdfIdle /\ LocksIdle

SharesSpec == SharesSpecInit /\ [][SharesNext]_vars

\* ------------------------------------------------------------------------
\* The RC cluster: the handlers of aaka_rc_app on the nodes of the peer
\* list; a call to a peer reaches it or fails (reach: the peers reached)
\* ------------------------------------------------------------------------
\* variant of FirstPeer: the last entry of the peer list
LastPeer == MaxPeers

\* peers[0]
FirstPeer == 1

\* identities registered through the cluster
RcUserIds == {<<97, 98>>}

RcServerIds == {<<109>>}

\* variant of set_shares that appends the body to itself before storing it
set_shares_doubled(body) ==
    LET parsed == [i \in 1..Len(body) |-> share_try_from(body[i])]
        stored == [i \in 1..Len(body) |-> parsed[i].val]
    IN  IF \E i \in 1..Len(body) : ~parsed[i].ok THEN Err("Other")
        ELSE Ok(stored \o stored)

\* the shares a node holds after the /set_shares call a peer made with body
set_shares(body) ==
    LET parsed == [i \in 1..Len(body) |-> share_try_from(body[i])]
    IN  IF \E i \in 1..Len(body) : ~parsed[i].ok THEN Err("Other")
        ELSE Ok([i \in 1..Len(body) |-> parsed[i].val])

\* the body of the answer to /get_shares
get_shares(held) == [i \in 1..Len(held) |-> share_to_bytes(held[i])]

\* the shares parsed from the answer of a peer, unparsable ones dropped
RECURSIVE ParsedShares(_, _)
ParsedShares(body, i) ==
    IF i = 0 THEN <<>>
    ELSE ParsedShares(body, i - 1)
         \o (IF share_try_from(body[i]).ok
             THEN <<share_try_from(body[i]).val>> ELSE <<>>)

\* the shares recover_secret collects: its own, then those of the peers
\* that answer, in the order of the peer list
RECURSIVE CollectShares(_, _, _, _)
CollectShares(held, node, reach, i) ==
    IF i = 0 THEN held[node]
    ELSE CollectShares(held, node, reach, i - 1)
         \o (IF i # node /\ i \in reach
             THEN ParsedShares(get_shares(held[i]), Len(held[i]))
             ELSE <<>>)

\* variant of recover_secret that starts from the all-zero key when no share
\* was collected
recover_secret_or_zero(held, node, reach) ==
    IF CollectShares(held, node, reach, MaxPeers) = <<>>
    THEN Ok([s |-> 0, s_hat |-> 0])
    ELSE from_shares(CollectShares(held, node, reach, MaxPeers), MaxPeers)

recover_secret(held, node, reach) ==
    from_shares(CollectShares(held, node, reach, MaxPeers), MaxPeers)

\* scalars drawn so far by the nodes 1..i
RECURSIVE RcDraws(_)
RcDraws(i) == IF i = 0 THEN 0 ELSE RcDraws(i - 1) + rc_rng[i].pos

\* node can draw k more scalars
RcCanDraw(node, k) ==
    /\ CanDraw(rc_rng[node], k)
    /\ RcDraws(MaxPeers) + k <= MaxRcDraws

RcInit ==
    /\ rc_params = [p \in Peers |-> None]
    /\ rc_shares = [p \in Peers |-> <<>>]
    /\ \E seed \in Seeds :
          rc_rng = [p \in Peers |->
                       seed_from_u64((seed + p - 1) % (MaxSeed + 1))]
    /\ rc_call = NoRcCall

\* POST /setup on node, the dealer drawing c, the peers in reach reached
SetupSystem(node, reach, c) ==
    /\ node = FirstPeer => RcCanDraw(node, 2)
    /\ IF node # FirstPeer
       THEN /\ rc_call' = [op |-> "setup", node |-> node,
                           result |-> Err("Other")]
            /\ UNCHANGED <<rc_params, rc_shares, rc_rng>>
       ELSE LET made == setup(RandAt(rc_rng[node], 0), RandAt(rc_rng[node], 1))
                bodies == [p \in Peers |->
                              share_to_bytes(
                                  into_shares(made.val.msk, MaxPeers, c)[p])]
            IN  /\ rc_rng' = [rc_rng EXCEPT ![node] = Drawn(@, 2)]
                /\ IF ~made.ok
                   THEN /\ rc_call' = [op |-> "setup", node |-> node,
                                       result |-> made]
                        /\ UNCHANGED <<rc_params, rc_shares>>
                   ELSE /\ rc_params' =
                              [rc_params EXCEPT ![node] = made.val.params]
                        /\ rc_shares' =
                              [p \in Peers |->
                                  IF p = node
                                  THEN <<share_try_from(bodies[p]).val>>
                                  ELSE IF p \in reach
                                  THEN set_shares(<<bodies[p]>>).val
                                  ELSE rc_shares[p]]
                        /\ rc_call' = [op |-> "setup", node |-> node,
                                       result |-> Ok(made.val.params)]
    /\ UNCHANGED <<protoVars, shareVars, msVars, kdfVars, lockVars>>

\* POST /register/user on node
RcRegisterUser(node, id, reach) ==
    /\ RcCanDraw(node, 1)
    /\ LET secret == recover_secret(rc_shares, node, reach)
       IN  IF ~secret.ok
           THEN /\ rc_call' = [op |-> "register_user", node |-> node,
                               result |-> secret]
                /\ UNCHANGED rc_rng
           ELSE /\ rc_call' = [op |-> "register_user", node |-> node,
                               result |-> register_user(
                                              secret.val, id,
                                              RandAt(rc_rng[node], 0))]
                /\ rc_rng' = [rc_rng EXCEPT ![node] = Drawn(@, 1)]
    /\ UNCHANGED <<rc_params, rc_shares>>
    /\ UNCHANGED <<protoVars, shareVars, msVars, kdfVars, lockVars>>

\* POST /register/server on node
RcRegisterServer(node, id, reach) ==
    /\ LET secret == recover_secret(rc_shares, node, reach)
       IN  rc_call' = [op |-> "register_server", node |-> node,
                       result |-> IF ~secret.ok THEN secret
                                  ELSE register_server(secret.val, id)]
    /\ UNCHANGED <<rc_params, rc_shares, rc_rng>>
    /\ UNCHANGED <<protoVars, shareVars, msVars, kdfVars, lockVars>>

\* GET /params on node
GetParams(node) ==
    /\ rc_call' = [op |-> "params", node |-> node,
                   result |-> IF rc_params[node] = None THEN Err("Other")
                              ELSE Ok(rc_params[node])]
    /\ UNCHANGED <<rc_params, rc_shares, rc_rng>>
    /\ UNCHANGED <<protoVars, shareVars, msVars, kdfVars, lockVars>>

RcNext ==
    \/ \E node \in Peers, c \in DealerDraws :
          \E reach \in SUBSET (Peers \ {node}) : SetupSystem(node, reach, c)
    \/ \E node \in Peers, id \in RcUserIds :
          \E reach \in SUBSET (Peers \ {node}) :
              RcRegisterUser(node, id, reach)
    \/ \E node \in Peers, id \in RcServerIds :
          \E reach \in SUBSET (Peers \ {node}) :
              RcRegisterServer(node, id, reach)
    \/ \E node \in Peers : GetParams(node)

RcSpecInit == RcInit /\ ProtoIdle /\ SharesIdle /\ MsInit /\ KdfIdle /\ LocksIdle

RcSpec == RcSpecInit /\ [][RcNext]_vars

\* ------------------------------------------------------------------------
\* The RC cluster with the registration handlers taken step by step: a
\* handler takes the lock of its node's state, fetches the shares of the
\* peers one after the other, and answers; GET /get_shares on a peer needs
\* the read lock of that peer's state
\* ------------------------------------------------------------------------
\* state.inner.write() is held on node (register_user in progress)
WriteLocked(node) == rc_tasks[node].kind = "user"

\* the peer recover_secret asks after peer i (itself skipped)
NextPeer(node, i) ==
    IF i + 1 = node THEN i + 2 ELSE i + 1

\* POST /register/user on node: state.inner.write() taken
BeginRegisterUser(node, id) ==
    /\ rc_tasks[node] = NoTask
    /\ rc_tasks' = [rc_tasks EXCEPT ![node] =
                       [kind |-> "user", id |-> id,
                        next |-> NextPeer(node, 0),
                        collected |-> rc_shares[node]]]
    /\ UNCHANGED rcVars
    /\ UNCHANGED <<protoVars, shareVars, msVars, kdfVars>>

\* POST /register/server on node: state.inner.read() taken
BeginRegisterServer(node, id) ==
    /\ rc_tasks[node] = NoTask
    /\ rc_tasks' = [rc_tasks EXCEPT ![node] =
                       [kind |-> "server", id |-> id,
                        next |-> NextPeer(node, 0),
                        collected |-> rc_shares[node]]]
    /\ UNCHANGED rcVars
    /\ UNCHANGED <<protoVars, shareVars, msVars, kdfVars>>

\* recover_secret on node gets the answer of the next peer: the call fails
\* (reached = FALSE), or get_shares on the peer takes the read lock of the
\* peer's state and answers
FetchShares(node, reached) ==
    /\ rc_tasks[node] # NoTask
    /\ rc_tasks[node].next <= MaxPeers
    /\ reached => ~WriteLocked(rc_tasks[node].next)
    /\ rc_tasks' =
          [rc_tasks EXCEPT
              ![node].next = NextPeer(node, @),
              ![node].collected =
                  IF reached
                  THEN @ \o ParsedShares(
                                get_shares(rc_shares[rc_tasks[node].next]),
                                Len(rc_shares[rc_tasks[node].next]))
                  ELSE @]
    /\ UNCHANGED rcVars
    /\ UNCHANGED <<protoVars, shareVars, msVars, kdfVars>>

\* the key a finished handler answers with
registration_result(task, secret, r_u_scalar) ==
    IF ~secret.ok THEN secret
    ELSE IF task.kind = "user"
    THEN register_user(secret.val, task.id, r_u_scalar)
    ELSE register_server(secret.val, task.id)

\* the handler on node has asked every peer: from_shares, the registration,
\* the answer; the lock is released
FinishRegistration(node) ==
    /\ rc_tasks[node] # NoTask
    /\ rc_tasks[node].next > MaxPeers
    /\ WriteLocked(node) => RcCanDraw(node, 1)
    /\ rc_call' = [op |-> IF WriteLocked(node) THEN "register_user"
                          ELSE "register_server",
                   node |-> node,
                   result |-> registration_result(
                                  rc_tasks[node],
                                  from_shares(rc_tasks[node].collected,
                                              MaxPeers),
                                  RandAt(rc_rng[node], 0))]
    /\ rc_rng' = IF WriteLocked(node)
                    /\ from_shares(rc_tasks[node].collected, MaxPeers).ok
                 THEN [rc_rng EXCEPT ![node] = Drawn(@, 1)]
                 ELSE rc_rng
    /\ rc_tasks' = [rc_tasks EXCEPT ![node] = NoTask]
    /\ UNCHANGED <<rc_params, rc_shares>>
    /\ UNCHANGED <<protoVars, shareVars, msVars, kdfVars>>

\* POST /setup on the first node while no handler holds the lock of the
\* node or of a peer that is reached
LockedSetupSystem(reach, c) ==
    /\ \A p \in reach \cup {FirstPeer} : rc_tasks[p] = NoTask
    /\ SetupSystem(FirstPeer, reach, c)

RcLockNext ==
    \/ \E c \in DealerDraws :
          \E reach \in SUBSET (Peers \ {FirstPeer}) :
              LockedSetupSystem(reach, c)
    \/ \E node \in Peers, id \in RcUserIds : BeginRegisterUser(node, id)
    \/ \E node \in Peers, id \in RcServerIds : BeginRegisterServer(node, id)
    \/ \E node \in Peers, reached \in BOOLEAN : FetchShares(node, reached)
    \/ \E node \in Peers : FinishRegistration(node)

RcLockSpec == RcSpecInit /\ [][RcLockNext]_vars

\* ------------------------------------------------------------------------
\* One MS process serving POST /auth/initiate for the requests of a user
\* (setup, the registrations and the user's first message as in Spec)
\* ------------------------------------------------------------------------
\* what the network can deliver to the MS process for a request the user
\* sent: the request, a copy with another sigma, a copy with timestamp 0
MsDelivered(request) ==
    {request,
     [request EXCEPT !.sigma = FAdd(@, 1)],
     [request EXCEPT !.timestamp = 0]}

MsRequestsInFlight ==
    IF init_res.ok THEN MsDelivered(init_res.val.request) ELSE {}

\* the entry of the log for a call: what steps 1-5 recovered from the
\* request (or the error they ended in), whether the call reached the draw
\* of y, the y drawn and the answer
MsLogEntry(request, at, verified, inner_rng, reply) ==
    [request |-> request, at |-> at, recovered |-> verified,
     drew |-> verified.ok,
     y |-> IF verified.ok THEN ms_cloned_draw(inner_rng) ELSE 0,
     reply |-> reply]

\* variant of HandleAuthRequest that remembers the requests it served and
\* refuses a request it has seen before
HandleAuthRequestOnce(request) ==
    /\ ssk_res.ok
    /\ init_res.ok
    /\ request \in MsRequestsInFlight
    /\ Len(ms_log) < MaxMsRequests
    /\ ms_log' = Append(ms_log,
                        IF \E i \in 1..Len(ms_log) : ms_log[i].request = request
                        THEN MsLogEntry(request, now, Err("AppError"),
                                        ms_rng, Err("AppError"))
                        ELSE MsLogEntry(request, now,
                                        verify_user_request(
                                            ssk_res.val, request,
                                            setup_res.val.params, now),
                                        ms_rng,
                                        handle_auth_request(
                                            ssk_res.val, server_id,
                                            setup_res.val.params, ms_rng,
                                            auth_request_payload(request),
                                            now)))
    /\ UNCHANGED ms_rng
    /\ UNCHANGED <<protoVars, shareVars, rcVars, kdfVars, lockVars>>

\* POST /auth/initiate with the payload of request
HandleAuthRequest(request) ==
    /\ ssk_res.ok
    /\ init_res.ok
    /\ request \in MsRequestsInFlight
    /\ Len(ms_log) < MaxMsRequests
    /\ ms_log' = Append(ms_log,
                        MsLogEntry(request, now,
                                   verify_user_request(
                                       ssk_res.val, request,
                                       setup_res.val.params, now),
                                   ms_rng,
                                   handle_auth_request(
                                       ssk_res.val, server_id,
                                       setup_res.val.params, ms_rng,
                                       auth_request_payload(request), now)))
    /\ UNCHANGED ms_rng
    /\ UNCHANGED <<protoVars, shareVars, rcVars, kdfVars, lockVars>>

MsNext ==
    \/ Setup
    \/ \E id_u \in UserIds : RegisterUser(id_u)
    \/ \E id_ms \in ServerIds : RegisterServer(id_ms)
    \/ \E id_ms \in ServerIds : InitiateAuthentication(id_ms)
    \/ \E d \in ClockSteps : AdvanceClock(d)
    \/ \E request \in MsRequestsInFlight : HandleAuthRequest(request)

MsSpec == Init /\ [][MsNext]_vars

\* ------------------------------------------------------------------------
\* Calls of the byte-length hashes h2 and h5 with inputs and output lengths
\* of every kind
\* ------------------------------------------------------------------------
\* output lengths asked for: none, less than a digest, one digest, more than
\* one, two digests, the longest the loop delivers and one byte more
KdfLens ==
    {0, 1, HashLen, HashLen + 1, 2 * HashLen,
     (KdfLoopLimit + 1) * HashLen, (KdfLoopLimit + 1) * HashLen + 1}

\* points handed to h5 as X and Y
KdfPoints == {1, 2}

\* the inputs of the calls are drawn once; no call made yet
KdfInit ==
    /\ \/ \E g_x \in Fq :
             kdf_call = [NoKdfCall EXCEPT !.fn = "h2", !.args = <<g_x>>]
       \/ \E k_point \in Fq, id_u \in UserIds, id_ms \in ServerIds :
             \E x_pub \in KdfPoints, y_pub \in KdfPoints :
                 kdf_call = [NoKdfCall EXCEPT
                                !.fn = "h5",
                                !.args = <<k_point, id_u, id_ms, x_pub, y_pub>>]
    /\ ProtoIdle /\ SharesIdle /\ RcIdle /\ MsInit /\ LocksIdle

\* h2 on the drawn input
H2Call(output_len) ==
    /\ kdf_call.fn = "h2"
    /\ kdf_call' = [kdf_call EXCEPT
                       !.len = output_len,
                       !.result = h2(kdf_call.args[1], output_len),
                       !.prev = [len |-> kdf_call.len,
                                 result |-> kdf_call.result]]
    /\ UNCHANGED <<protoVars, shareVars, rcVars, msVars, lockVars>>

\* h5 on the drawn inputs
H5Call(key_len_bytes) ==
    /\ kdf_call.fn = "h5"
    /\ kdf_call' = [kdf_call EXCEPT
                       !.len = key_len_bytes,
                       !.result = h5(kdf_call.args[1], kdf_call.args[2],
                                     kdf_call.args[3], kdf_call.args[4],
                                     kdf_call.args[5], key_len_bytes),
                       !.prev = [len |-> kdf_call.len,
                                 result |-> kdf_call.result]]
    /\ UNCHANGED <<protoVars, shareVars, rcVars, msVars, lockVars>>

KdfNext ==
    \/ \E output_len \in KdfLens : H2Call(output_len)
    \/ \E key_len_bytes \in KdfLens : H5Call(key_len_bytes)

KdfSpec == KdfInit /\ [][KdfNext]_vars

\* ------------------------------------------------------------------------
\* Properties
\* ------------------------------------------------------------------------
\* longest output the KDF of h2 / h5 delivers: the digest plus one digest per
\* allowed loop iteration
KdfMaxLen == (KdfLoopLimit + 1) * HashLen

\* the user authenticated against the identity the MS is registered under and
\* the MS was handed the user's request unaltered while it was fresh
HonestRequestProcessed ==
    /\ init_res.ok
    /\ srv.result # None
    /\ target_id = server_id
    /\ srv.request = init_res.val.request
    /\ is_timestamp_fresh(srv.request.timestamp, srv.at)

\* the user was handed the response of that call unaltered while it was fresh,
\* and asks for the key length the MS used
HonestResponseProcessed ==
    /\ HonestRequestProcessed
    /\ srv.result.ok
    /\ usr.result # None
    /\ usr.response = srv.result.val.response
    /\ usr.key_len_bytes = srv.key_len_bytes
    /\ is_timestamp_fresh(usr.response.timestamp, usr.at)

SigmaReplaced ==
    /\ init_res.ok
    /\ srv.result # None
    /\ target_id = server_id
    /\ srv.request.sigma # init_res.val.request.sigma
    /\ srv.request = [init_res.val.request EXCEPT !.sigma = srv.request.sigma]
    /\ is_timestamp_fresh(srv.request.timestamp, srv.at)

\* C2 (as stated): a request whose sigma was replaced by a different scalar
\* is answered with SignatureVerificationFailed.
C2_Original ==
    SigmaReplaced => srv.result = Err("SignatureVerificationFailed")

\* C2 (amended): a request of a user with a non-empty ID_u whose sigma was
\* replaced by a different scalar is answered with
\* SignatureVerificationFailed; whatever ID_u is, the call yields neither a
\* response nor a session key.
C2_TamperedSigmaRejected ==
    SigmaReplaced =>
        /\ ~srv.result.ok
        /\ user_id # <<>> => srv.result = Err("SignatureVerificationFailed")

C2_Witness ==
    /\ SigmaReplaced
    /\ user_id # <<>>
    /\ srv.result = Err("SignatureVerificationFailed")

\* the user was handed the response of an honest call with t replaced by
\* another scalar (Y and T_ms untouched) while T_ms was fresh
TReplaced ==
    /\ HonestRequestProcessed
    /\ srv.result.ok
    /\ usr.result # None
    /\ usr.response.t # srv.result.val.response.t
    /\ usr.response = [srv.result.val.response EXCEPT !.t = usr.response.t]
    /\ is_timestamp_fresh(usr.response.timestamp, usr.at)

\* C3: a response whose t was replaced by a different scalar is answered with
\* ServerResponseVerificationFailed, and no session key is derived.
C3_TamperedTRejected ==
    TReplaced => usr.result = Err("ServerResponseVerificationFailed")

C3_Witness ==
    /\ TReplaced
    /\ usr.result = Err("ServerResponseVerificationFailed")

\* C4: a request whose T_u lies more than 300 seconds before the server's
\* clock is answered with InvalidTimestamp, also when the same request was
\* accepted earlier.
C4_StaleRequestRejected ==
    (srv.result # None /\ srv.request.timestamp + 300 < srv.at)
        => srv.result = Err("InvalidTimestamp")

C4_Witness ==
    /\ srv.result # None
    /\ srv.request \in accepted
    /\ srv.request.timestamp + 300 < srv.at
    /\ srv.result = Err("InvalidTimestamp")

\* C5: a response whose T_ms lies more than 300 seconds after or before the
\* user's clock is answered with InvalidTimestamp, whatever t and Y are.
C5_UnfreshResponseRejected ==
    ( /\ usr.result # None
      /\ \/ usr.response.timestamp > usr.at + 300
         \/ usr.response.timestamp + 300 < usr.at )
        => usr.result = Err("InvalidTimestamp")

C5_Witness ==
    /\ usr.result # None
    /\ usr.response.timestamp > usr.at + 300
    /\ usr.result = Err("InvalidTimestamp")

\* C6: from_shares(msk.into_shares(n), n) succeeds and returns msk, for every
\* msk and every n: rebuilding from all the shares that were dealt, with the
\* n they were dealt for, gives back the key that was split
C6_SharesRoundTrip ==
    (/\ rebuilt.result # None
     /\ rebuilt.picked = 1..node_count
     /\ rebuilt.n = node_count)
        => rebuilt.result = Ok(master)

\* C7: for a threshold t <= n, any t of the n shares rebuild msk exactly and
\* any t - 1 of them fail to rebuild
C7_ThresholdSubsets ==
    rebuilt.result # None =>
        /\ Cardinality(rebuilt.picked) = rebuilt.n
              => rebuilt.result = Ok(master)
        /\ Cardinality(rebuilt.picked) = rebuilt.n - 1
              => ~rebuilt.result.ok

\* a step that serves POST /setup on some node
SetupSystemCall ==
    \E node \in Peers, c \in DealerDraws :
        \E reach \in SUBSET (Peers \ {node}) : SetupSystem(node, reach, c)

\* C8: the first setup call (on the first peer, with non-zero draws) succeeds
\* and leaves the node with parameters and a share; every setup call made
\* once parameters are stored is rejected and changes neither the stored
\* parameters nor any node's shares
C8_SetupOnlyOnce ==
    [][SetupSystemCall =>
          IF rc_params[FirstPeer] = None
          THEN (/\ rc_call'.node = FirstPeer
                /\ RandAt(rc_rng[FirstPeer], 0) # 0
                /\ RandAt(rc_rng[FirstPeer], 1) # 0)
                   => /\ rc_call'.result.ok
                      /\ rc_params'[FirstPeer] # None
                      /\ rc_shares'[FirstPeer] # <<>>
          ELSE /\ ~rc_call'.result.ok
               /\ UNCHANGED <<rc_params, rc_shares>>]_vars

\* C9: the parameters returned by Setup satisfy P_pub = s*P, P_pub_hat =
\* s_hat*P and g = e(P, P2), P being the generator of G1.
C9_SetupParameters ==
    setup_res.ok =>
        LET params == setup_res.val.params
            msk == setup_res.val.msk
        IN  /\ params.p = G1Generator
            /\ params.p_pub = GMul(params.p, msk.s)
            /\ params.p_pub_hat = GMul(params.p, msk.s_hat)
            /\ params.g = Pairing(params.p, G2Generator)
            /\ msk.s # 0 /\ msk.s_hat # 0

C9_Witness ==
    /\ setup_res.ok
    /\ setup_res.val.msk.s # setup_res.val.msk.s_hat

\* C10: the key returned by RegisterUser(msk, id) satisfies
\* SID_u*P = R_u + H0(id || R_u)*P_pub for the P_pub of msk.
C10_UserKeyEquation ==
    usk_res.ok =>
        LET params == setup_res.val.params
            usk == usk_res.val
        IN  GMul(params.p, usk.sid_u)
              = GAdd(usk.r_u, GMul(params.p_pub, h0(user_id, usk.r_u)))

C10_Witness ==
    /\ usk_res.ok
    /\ h0(user_id, usk_res.val.r_u) # 0
    /\ setup_res.val.msk.s # setup_res.val.msk.s_hat

\* C11: the key returned by RegisterServer(msk, id) satisfies
\* (s_hat + H1(id))*SID_ms = P2, so that for every scalar x
\* e(x*(P_pub_hat + H1(id)*P), SID_ms) = g^x.
C11_ServerKeyEquation ==
    ssk_res.ok =>
        LET params == setup_res.val.params
            msk == setup_res.val.msk
            ssk == ssk_res.val
        IN  /\ GMul(ssk.sid_ms, FAdd(msk.s_hat, h1(server_id))) = G2Generator
            /\ \A x \in Fq :
                  Pairing(GMul(GAdd(params.p_pub_hat,
                                    GMul(params.p, h1(server_id))), x),
                          ssk.sid_ms)
                    = GtMulBigint(params.g, x)

C11_Witness ==
    /\ ssk_res.ok
    /\ h1(server_id) # 0
    /\ ssk_res.val.sid_ms # G2Generator
    /\ setup_res.val.msk.s # setup_res.val.msk.s_hat

\* C12: whenever the RNG yields zero for a freshly drawn scalar (s or s_hat
\* in setup, r_u in register_user, x in initiate_authentication, y in
\* process_user_request) the call fails with CryptoError, and no successful
\* output is built from a zero scalar.  The call of a step is told by the
\* result it writes; the only step that draws without writing setup_res,
\* usk_res or init_res is a process_user_request that reached its draw.
C12_ZeroDrawFails ==
    [][/\ setup_res' # setup_res =>
             /\ (RandAt(rng, 0) = 0 \/ RandAt(rng, 1) = 0)
                   => setup_res' = Err("CryptoError")
             /\ setup_res'.ok => /\ setup_res'.val.msk.s # 0
                                 /\ setup_res'.val.msk.s_hat # 0
       /\ usk_res' # usk_res =>
             /\ RandAt(rng, 0) = 0 => usk_res' = Err("CryptoError")
             /\ usk_res'.ok => usk_res'.val.r_u # 0
       /\ init_res' # init_res =>
             /\ RandAt(rng, 0) = 0 => init_res' = Err("CryptoError")
             /\ init_res'.ok => /\ init_res'.val.state.x # 0
                                /\ init_res'.val.state.temp_x_pub # 0
       /\ (rng' # rng /\ UNCHANGED <<setup_res, usk_res, init_res>>) =>
             /\ srv'.drew
             /\ RandAt(rng, 0) = 0 => srv'.result = Err("CryptoError")
       /\ srv'.result.ok => /\ srv'.drew
                            /\ srv'.y # 0
                            /\ srv'.result.val.response.y # 0]_vars

C12_Witness ==
    /\ srv.drew
    /\ srv.y = 0
    /\ srv.result = Err("CryptoError")

\* C13: a UserState is consumed exactly once: after one
\* process_server_response has used it and produced a session key, no further
\* process_server_response with the same state yields a session key.
C13_StateConsumedOnce ==
    [][(/\ usr.result.ok
        /\ \E k \in KeyLens, response \in ResponsesInFlight :
              ProcessServerResponse(response, k))
          => ~usr'.result.ok]_vars

\* the payload ID_u' || R_u' || X' behind the N of the request the MS was
\* handed last
RecoveredPayload ==
    XorSeq(h2(Pairing(srv.request.m, ssk_res.val.sid_ms),
              Len(srv.request.n)).val,
           srv.request.n)

RecoveredIdLen == Len(srv.request.n) - 2 * G1Size

RecoveredId == SubSeq(RecoveredPayload, 1, RecoveredIdLen)

RecoveredRu ==
    deserialize_g1(SubSeq(RecoveredPayload, RecoveredIdLen + 1,
                          RecoveredIdLen + G1Size))

RecoveredX ==
    deserialize_g1(SubSeq(RecoveredPayload, RecoveredIdLen + G1Size + 1,
                          Len(srv.request.n)))

\* ID_u', R_u' and X' can be recovered from N
PayloadRecovered ==
    /\ RecoveredIdLen > 0
    /\ RecoveredRu.ok
    /\ RecoveredX.ok

\* sigma*P = R_u' + H0(ID_u' || R_u')*P_pub + H3(ID_u', R_u', X', T_u)*X'
SignatureEquation ==
    LET params == setup_res.val.params
        r_u_prime == RecoveredRu.val
        x_prime == RecoveredX.val
    IN  GMul(params.p, srv.request.sigma)
          = GAdd(GAdd(r_u_prime,
                      GMul(params.p_pub, h0(RecoveredId, r_u_prime))),
                 GMul(x_prime, h3(RecoveredId, r_u_prime, x_prime,
                                  srv.request.timestamp)))

\* C14: process_user_request returns a response and a session key only if
\* T_u is fresh and the values recovered from N satisfy the signature
\* equation; a fresh request whose recovered values do not satisfy it is
\* answered with SignatureVerificationFailed.
C14_AcceptedOnlyIfVerified ==
    srv.result # None =>
        /\ srv.result.ok =>
              /\ is_timestamp_fresh(srv.request.timestamp, srv.at)
              /\ PayloadRecovered
              /\ SignatureEquation
        /\ (/\ is_timestamp_fresh(srv.request.timestamp, srv.at)
            /\ PayloadRecovered
            /\ ~SignatureEquation)
              => srv.result = Err("SignatureVerificationFailed")

C14_Witness ==
    /\ srv.result.ok
    /\ srv.at # srv.request.timestamp
    /\ PayloadRecovered
    /\ SignatureEquation
    /\ setup_res.val.params.p_pub # setup_res.val.params.p_pub_hat

\* the two values are at most ALLOWED_SKEW_SECONDS apart
WithinSkew(timestamp, current_ts) ==
    \E d \in 0..ALLOWED_SKEW_SECONDS :
        \/ timestamp + d = current_ts
        \/ current_ts + d = timestamp

\* C15: is_timestamp_fresh(T) is true exactly when the clock and T are at most
\* 300 seconds apart, for past and future T, 0 and the largest value included:
\* both process_user_request and process_server_response answer
\* InvalidTimestamp exactly for timestamps more than 300 seconds away.
C15_FreshWithinSkew ==
    /\ srv.result # None =>
          (srv.result = Err("InvalidTimestamp")
             <=> ~WithinSkew(srv.request.timestamp, srv.at))
    /\ usr.result # None =>
          (usr.result = Err("InvalidTimestamp")
             <=> ~WithinSkew(usr.response.timestamp, usr.at))

C15_Witness ==
    /\ srv.result # None
    /\ usr.result # None
    /\ srv.request.timestamp + ALLOWED_SKEW_SECONDS = srv.at
    /\ srv.result # Err("InvalidTimestamp")
    /\ usr.response.timestamp = MaxTimestamp
    /\ usr.result = Err("InvalidTimestamp")

\* C16: reconstruction of the master key returns the error kind InvalidInput,
\* a value and not a crash, when fewer than t valid shares are supplied and
\* when the reconstructed bytes hold a limb group that is not a canonical
\* field element.
C16_ReconstructionInvalidInput ==
    rebuilt.result # None =>
        /\ Cardinality(rebuilt.picked) < rebuilt.n
              => rebuilt.result = Err("InvalidInput")
        /\ rebuilt.result # Err("Panic")

\* a step that serves a registration call on node with the peers in reach
\* reached
RegistrationCall(node, reach) ==
    \/ \E id \in RcUserIds : RcRegisterUser(node, id, reach)
    \/ \E id \in RcServerIds : RcRegisterServer(node, id, reach)

\* number of distinct shares node collects, its own included
DistinctShares(node, reach) ==
    LET collected == CollectShares(rc_shares, node, reach, MaxPeers)
    IN  Cardinality({collected[i].x : i \in 1..Len(collected)})

\* C17: for every threshold t <= n, a registration call succeeds whenever the
\* serving node can collect at least t distinct shares, its own included,
\* whatever the other nodes do (a zero draw or a zero denominator aside), and
\* with fewer than t shares it fails and returns no key.
C17_RegistrationWithThreshold ==
    [][\A node \in Peers, t \in 1..MaxPeers :
          \A reach \in SUBSET (Peers \ {node}) :
              RegistrationCall(node, reach) =>
                  /\ DistinctShares(node, reach) >= t
                        => \/ rc_call'.result.ok
                           \/ rc_call'.result = Err("CryptoError")
                  /\ DistinctShares(node, reach) < t
                        => ~rc_call'.result.ok]_vars

\* C18: in every reachable state of an RC cluster of two or more nodes driven
\* by setup and registration calls, each node stores at most one share, which
\* is fewer than reconstruction needs, and no stored share is the master key
\* a setup call has just dealt (a setup call that succeeds is a step that
\* draws and leaves its answer in rc_call).
C18_NoNodeHoldsMasterKey ==
    [][/\ \A p \in Peers :
             /\ Len(rc_shares'[p]) <= 1
             /\ MaxPeers >= 2 => ~recover_secret(rc_shares', p, {}).ok
       /\ (rc_call'.op = "setup" /\ rc_call'.result.ok /\ rc_rng' # rc_rng) =>
             LET msk == setup(RandAt(rc_rng[FirstPeer], 0),
                              RandAt(rc_rng[FirstPeer], 1)).val.msk
             IN  \A p \in Peers :
                     \A i \in 1..Len(rc_shares'[p]) :
                         rc_shares'[p][i].y # msk_to_bytes(msk)]_vars

C18_Witness ==
    /\ rc_call.op = "register_user"
    /\ rc_call.result.ok
    /\ \A p \in Peers : Len(rc_shares[p]) = 1

\* C19: after a successful setup every RC node of the peer list holds its
\* share and the SystemParameters, so that GET /params answers with the same
\* parameters on every node.
C19_ParamsOnEveryNode ==
    /\ (rc_call.op = "setup" /\ rc_call.result.ok) =>
          \A p \in Peers :
              /\ rc_shares[p] # <<>>
              /\ rc_params[p] = rc_call.result.val
    /\ (rc_call.op = "params" /\ rc_params[FirstPeer] # None) =>
          rc_call.result = Ok(rc_params[FirstPeer])

\* the user authenticated against an identity other than the one the MS is
\* registered under, and the MS was handed the user's request
WrongIdentityRequestProcessed ==
    /\ init_res.ok
    /\ srv.result # None
    /\ target_id # server_id
    /\ srv.request = init_res.val.request

\* C20: a request the user built for an identity different from the one the
\* processing server's key was registered under is never accepted: no
\* response and no session key, and while T_u is fresh the call fails at the
\* decoding of N or at the signature check.
C20_WrongIdentityRejected ==
    WrongIdentityRequestProcessed =>
        /\ ~srv.result.ok
        /\ is_timestamp_fresh(srv.request.timestamp, srv.at)
              => srv.result \in {Err("Deserialization"),
                                 Err("SignatureVerificationFailed")}

C20_Witness ==
    /\ WrongIdentityRequestProcessed
    /\ user_id # <<>>
    /\ is_timestamp_fresh(srv.request.timestamp, srv.at)
    /\ srv.result = Err("Deserialization")

\* C21: successive requests handled by one MS process draw y from an RNG
\* whose state advances from one request to the next, so no two handled
\* requests get the same y (and the same Y = y*P).
C21_FreshYPerRequest ==
    \A i, j \in 1..Len(ms_log) :
        (i < j /\ ms_log[i].drew /\ ms_log[j].drew)
            => /\ ms_log[i].y # ms_log[j].y
               /\ (ms_log[i].reply.ok /\ ms_log[j].reply.ok)
                     => ms_log[i].reply.val.response.y_hex
                          # ms_log[j].reply.val.response.y_hex

\* C22: the reply the MS sends for an authentication request carries only t,
\* Y and T_ms (with the message text of the body); the session key is in no
\* field of it.
C22_ReplyWithoutSessionKey ==
    \A i \in 1..Len(ms_log) :
        ms_log[i].reply.ok =>
            /\ DOMAIN ms_log[i].reply.val \subseteq {"message", "response"}
            /\ DOMAIN ms_log[i].reply.val.response
                 = {"t_hex", "y_hex", "timestamp"}

\* the fixed input of the call: the tag followed by the serialized arguments
KdfCallBase ==
    IF kdf_call.fn = "h2"
    THEN H2_DOMAIN_SEP \o serialize_gt(kdf_call.args[1])
    ELSE H5_DOMAIN_SEP \o serialize_g1(kdf_call.args[1]) \o kdf_call.args[2]
         \o kdf_call.args[3] \o serialize_g1(kdf_call.args[4])
         \o serialize_g1(kdf_call.args[5])

\* first len bytes of B0 || B1 || ... with Bi = SHA3-256(base || be32(i))
CounterModeBytes(base, len) ==
    [i \in 1..len |->
        Sha3_256(base \o BeBytes((i - 1) \div HashLen, 4))
            [((i - 1) % HashLen) + 1]]

\* C23: the output of H2 and of H5 is the first len bytes of B0 || B1 || ...
\* where Bi = SHA3-256(tag || fixed-inputs || be32(i)), the first block
\* included.
C23_CounterModeBlocks ==
    kdf_call.result.ok
        => kdf_call.result.val = CounterModeBytes(KdfCallBase, kdf_call.len)

\* C24: for the same inputs and two lengths len1 <= len2 the KDF can
\* produce, H5(.., len1) is a prefix of H5(.., len2), and likewise for H2.
C24_KdfPrefix ==
    (kdf_call.result.ok /\ kdf_call.prev.result.ok) =>
        /\ kdf_call.prev.len <= kdf_call.len
              => kdf_call.prev.result.val
                   = SubSeq(kdf_call.result.val, 1, kdf_call.prev.len)
        /\ kdf_call.len <= kdf_call.prev.len
              => kdf_call.result.val
                   = SubSeq(kdf_call.prev.result.val, 1, kdf_call.len)

C24_Witness ==
    /\ kdf_call.fn = "h5"
    /\ kdf_call.prev.result.ok
    /\ kdf_call.prev.len = HashLen
    /\ kdf_call.result.ok
    /\ kdf_call.len = 2 * HashLen
    /\ kdf_call.prev.result.val = SubSeq(kdf_call.result.val, 1, HashLen)

\* C29: H2 and H5 return exactly the requested number of bytes (none for
\* length 0) whenever at most KdfLoopLimit extension iterations are needed,
\* and fail with HashError, returning no bytes, when more are needed.
C29_KdfLengthOrHashError ==
    kdf_call.result # None =>
        IF \E m \in 0..KdfLoopLimit : HashLen * (1 + m) >= kdf_call.len
        THEN /\ kdf_call.result.ok
             /\ Len(kdf_call.result.val) = kdf_call.len
        ELSE kdf_call.result = Err("HashError")

C29_Witness ==
    /\ kdf_call.result.ok
    /\ kdf_call.len = (KdfLoopLimit + 1) * HashLen
    /\ Len(kdf_call.result.val) = kdf_call.len
    /\ kdf_call.prev.result = Err("HashError")

\* the honest run of the test RNG seeded with seed, every step of it made at
\* clock at: setup, the user's key, the server's key, the request and the
\* server's result
SeededSetup(seed) ==
    setup(RandAt(seed_from_u64(seed), 0), RandAt(seed_from_u64(seed), 1))

SeededUsk(seed, id_u) ==
    register_user(SeededSetup(seed).val.msk, id_u,
                  RandAt(seed_from_u64(seed), 2))

SeededSsk(seed, id_ms) == register_server(SeededSetup(seed).val.msk, id_ms)

SeededInit(seed, id_u, id_ms, at) ==
    initiate_authentication(SeededUsk(seed, id_u).val, id_u, id_ms,
                            SeededSetup(seed).val.params,
                            RandAt(seed_from_u64(seed), 3), at)

SeededServed(seed, id_u, id_ms, k, at) ==
    process_user_request(SeededSsk(seed, id_ms).val,
                         SeededInit(seed, id_u, id_ms, at).val.request,
                         id_ms, SeededSetup(seed).val.params,
                         RandAt(seed_from_u64(seed), 4), k, at)

\* the server handled the user's own request as the first request of the run
HonestlyServed ==
    /\ init_res.ok
    /\ server_id = target_id
    /\ srv # NoCall
    /\ srv.request = init_res.val.request
    /\ srv.drew
    /\ rng.pos = 5

\* C25: two full honest runs with the test RNG of the same seed and the same
\* ID_u, ID_ms and k give the same request, the same response and the same
\* session keys: every run equals the run made at the starting clock.
C25_SameSeedSameOutputs ==
    /\ init_res.ok
          => init_res.val.request
               = SeededInit(rng.seed, user_id, target_id,
                            StartClock).val.request
    /\ (HonestlyServed /\ srv.result.ok)
          => srv.result.val
               = SeededServed(rng.seed, user_id, target_id,
                              srv.key_len_bytes, StartClock).val

\* C26: a fresh request whose N is too short to hold a non-empty ID_u and two
\* compressed G1 points (len(N) <= 2 * G1Size) is rejected with the error
\* kind InvalidInput.
C26_ShortNInvalidInput ==
    (/\ srv # NoCall
     /\ is_timestamp_fresh(srv.request.timestamp, srv.at)
     /\ Len(srv.request.n) <= 2 * G1Size)
        => srv.result = Err("InvalidInput")

\* what an MS process that has served nothing yet does with the request of
\* the last entry of the log, at the clock of that entry
FreshVerified(entry) ==
    verify_user_request(ssk_res.val, entry.request, setup_res.val.params,
                        entry.at)

FreshReply(entry) ==
    handle_auth_request(ssk_res.val, server_id, setup_res.val.params,
                        seed_from_u64(MS_RNG_SEED % (MaxSeed + 1)),
                        auth_request_payload(entry.request), entry.at)

\* C27: the MS's handling of a request does not depend on the requests it
\* handled before: whether the request is accepted and which (ID_u', R_u',
\* X') is recovered are those of an MS that has served nothing yet, whatever
\* was served before and in whatever order; and handling a request leaves
\* ssk, params and the server identity unchanged.
C27_HandlingIndependent ==
    [][ms_log' # ms_log =>
          /\ ms_log'[Len(ms_log')].reply.ok
                = FreshReply(ms_log'[Len(ms_log')]).ok
          /\ ms_log'[Len(ms_log')].recovered
                = FreshVerified(ms_log'[Len(ms_log')])
          /\ UNCHANGED <<ssk_res, setup_res, server_id>>]_vars

\* one request accepted after a rejected one, and served again
C27_Witness ==
    /\ Len(ms_log) = 2
    /\ ms_log[1].request # ms_log[2].request
    /\ ~ms_log[1].reply.ok
    /\ ms_log[2].reply.ok
    /\ ms_log[2].recovered.ok
    /\ ms_log[2].recovered.val.id_u_prime = user_id

\* the bytes the server gets from N of request with its key ssk
UnmaskedPayload(request, ssk) ==
    XorSeq(h2(Pairing(request.m, ssk.sid_ms), Len(request.n)).val, request.n)

\* payload splits at len - 2c and len - c into id_u, R_u and X
SplitsInto(payload, id_u, r_u, x_pub) ==
    /\ SubSeq(payload, 1, Len(payload) - 2 * G1Size) = id_u
    /\ SubSeq(payload, Len(payload) - 2 * G1Size + 1,
              Len(payload) - G1Size) = serialize_g1(r_u)
    /\ SubSeq(payload, Len(payload) - G1Size + 1, Len(payload))
          = serialize_g1(x_pub)

\* the user addressed the registered server, with an identity of length >= 1
HonestRequestSent ==
    /\ init_res.ok
    /\ ssk_res.ok
    /\ server_id = target_id
    /\ Len(user_id) >= 1

\* C28: in an honest run e(M, SID_ms) equals g^x, and N XOR H2(e(M, SID_ms),
\* len(N)) splits at the offsets len(N) - 2c and len(N) - c into exactly the
\* user's ID_u, R_u and X, for every ID_u of length >= 1.
C28_UnmaskingInvertsMasking ==
    HonestRequestSent =>
        /\ Pairing(init_res.val.request.m, ssk_res.val.sid_ms)
              = GtMulBigint(setup_res.val.params.g, init_res.val.state.x)
        /\ SplitsInto(UnmaskedPayload(init_res.val.request, ssk_res.val),
                      user_id, usk_res.val.r_u,
                      init_res.val.state.temp_x_pub)

\* the server unmasked the honest request and recovered the user's values
C28_Witness ==
    /\ HonestRequestSent
    /\ srv # NoCall
    /\ srv.request = init_res.val.request
    /\ srv.result.ok
    /\ SplitsInto(UnmaskedPayload(srv.request, ssk_res.val), user_id,
                  usk_res.val.r_u, init_res.val.state.temp_x_pub)

\* C30: RegisterServer(msk, id) fails with CryptoError and returns no key
\* when s_hat + H1(id) = 0 in Fq; for every other (s_hat, id) it succeeds.
C30_ServerKeyOrCryptoError ==
    ssk_res # None =>
        IF FAdd(setup_res.val.msk.s_hat, h1(server_id)) = 0
        THEN ssk_res = Err("CryptoError")
        ELSE ssk_res.ok

C30_Witness ==
    /\ ssk_res = Err("CryptoError")
    /\ FAdd(setup_res.val.msk.s_hat, h1(server_id)) = 0

\* node p holds the write lock of its state and waits for the shares of
\* node q, whose get_shares cannot take the read lock
WaitsFor(p, q) ==
    /\ WriteLocked(p)
    /\ rc_tasks[p].next = q
    /\ WriteLocked(q)

\* C31: when two RC nodes each serve a register/user call at the same time,
\* the two handlers never wait for each other in a circle.
C31_NoCircularWait ==
    \A p, q \in Peers : ~(p # q /\ WaitsFor(p, q) /\ WaitsFor(q, p))

\* C32: whenever the setup call returns the system parameters successfully,
\* every node of the peer list holds its share, so that a registration
\* issued afterwards on any node with all nodes reachable recovers the key.
C32_SetupLeavesSharesEverywhere ==
    (rc_call.op = "setup" /\ rc_call.result.ok) =>
        /\ \A p \in Peers : Len(rc_shares[p]) = 1
        /\ \A p \in Peers : recover_secret(rc_shares, p, Peers).ok

\* the checks of process_user_request on the request handed over last
RequestFresh == is_timestamp_fresh(srv.request.timestamp, srv.at)

RequestLongEnough == Len(srv.request.n) > 2 * G1Size

\* the t of the response handed to the user last is the H4 value the user
\* computes
ResponseTMatches ==
    usr.response.t = h4(init_res.val.state.user_id, target_id,
                        init_res.val.state.temp_x_pub, usr.response.y,
                        usr.response.timestamp)

\* C33: process_user_request applies its checks in a fixed order and reports
\* the first that fails: freshness of T_u (InvalidTimestamp), the length of
\* N, decoding of R_u' and X' (Deserialization), the signature equation
\* (SignatureVerificationFailed); y is drawn only after all of them passed.
\* process_server_response checks freshness of T_ms before it compares t.
C33_ChecksInOrder ==
    /\ srv # NoCall =>
          /\ ~RequestFresh => srv.result = Err("InvalidTimestamp")
          /\ (RequestFresh /\ ~RequestLongEnough)
                => /\ ~srv.result.ok
                   /\ srv.result.err
                        \notin {"InvalidTimestamp",
                                "SignatureVerificationFailed", "CryptoError"}
          /\ (RequestFresh /\ RequestLongEnough /\ ~PayloadRecovered)
                => srv.result = Err("Deserialization")
          /\ (/\ RequestFresh
              /\ RequestLongEnough
              /\ PayloadRecovered
              /\ ~SignatureEquation)
                => srv.result = Err("SignatureVerificationFailed")
          /\ srv.drew <=> (/\ RequestFresh
                           /\ RequestLongEnough
                           /\ PayloadRecovered
                           /\ SignatureEquation)
          /\ srv.result.ok => srv.drew
    /\ usr # NoCall =>
          /\ ~is_timestamp_fresh(usr.response.timestamp, usr.at)
                => usr.result = Err("InvalidTimestamp")
          /\ (/\ is_timestamp_fresh(usr.response.timestamp, usr.at)
              /\ ~ResponseTMatches)
                => usr.result = Err("ServerResponseVerificationFailed")

\* a response that is stale and whose t does not match is answered with
\* InvalidTimestamp
C33_Witness ==
    /\ usr # NoCall
    /\ ~is_timestamp_fresh(usr.response.timestamp, usr.at)
    /\ ~ResponseTMatches
    /\ usr.result = Err("InvalidTimestamp")

\* the server was handed the user's request with T_u replaced by another
\* timestamp that is fresh (and whose H3 value is another one: the scalar
\* field of the model has Q elements, so H3 values can coincide)
TimestampReplaced ==
    /\ init_res.ok
    /\ srv.result # None
    /\ target_id = server_id
    /\ srv.request.timestamp # init_res.val.request.timestamp
    /\ srv.request
          = [init_res.val.request EXCEPT !.timestamp = srv.request.timestamp]
    /\ is_timestamp_fresh(srv.request.timestamp, srv.at)
    /\ h3(user_id, usk_res.val.r_u, init_res.val.state.temp_x_pub,
          srv.request.timestamp)
          # h3(user_id, usk_res.val.r_u, init_res.val.state.temp_x_pub,
               init_res.val.request.timestamp)

\* C34 as stated: replacing T_u in an honest request by a different
\* timestamp that is still fresh makes process_user_request fail with
\* SignatureVerificationFailed.
C34_Original ==
    TimestampReplaced => srv.result = Err("SignatureVerificationFailed")

\* C34: replacing T_u in an honest request by a different timestamp that is
\* still fresh makes process_user_request fail, without a response or a
\* session key; the error is SignatureVerificationFailed whenever ID_u is
\* not empty (with an empty ID_u the request is rejected before, for the
\* length of N).
C34_RewrittenTimestampRejected ==
    TimestampReplaced =>
        /\ ~srv.result.ok
        /\ ~srv.drew
        /\ user_id # <<>> => srv.result = Err("SignatureVerificationFailed")

C34_Witness ==
    /\ TimestampReplaced
    /\ user_id # <<>>
    /\ init_res.val.request.timestamp + ALLOWED_SKEW_SECONDS < srv.at
    /\ srv.result = Err("SignatureVerificationFailed")

\* the user was handed the server's response with Y or T_ms replaced (T_ms
\* still fresh, t untouched), the H4 value of the replaced fields being
\* another one than t
YOrStampReplaced ==
    /\ HonestRequestProcessed
    /\ srv.result.ok
    /\ usr.result # None
    /\ usr.response # srv.result.val.response
    /\ usr.response.t = srv.result.val.response.t
    /\ is_timestamp_fresh(usr.response.timestamp, usr.at)
    /\ ~ResponseTMatches

\* C35: replacing Y or T_ms in an honest response by a different value (T_ms
\* still fresh) makes process_server_response fail with
\* ServerResponseVerificationFailed; the user derives a session key only
\* from a response whose t equals H4(ID_u, ID_ms, X, Y, T_ms) for its own
\* ID_u and X and the ID_ms it was called with.
C35_ResponseBoundByT ==
    /\ YOrStampReplaced
          => usr.result = Err("ServerResponseVerificationFailed")
    /\ (usr # NoCall /\ usr.result.ok) => ResponseTMatches

C35_Witness ==
    /\ YOrStampReplaced
    /\ \/ usr.response.y # srv.result.val.response.y
       \/ usr.response.timestamp # srv.result.val.response.timestamp
    /\ usr.result = Err("ServerResponseVerificationFailed")

\* identity strings of up to two bytes
IdentityBytes == {97, 98, 109}

IdentityStrings ==
    {<<>>} \cup {<<b>> : b \in IdentityBytes}
    \cup {<<b1, b2>> : b1 \in IdentityBytes, b2 \in IdentityBytes}

\* C36: the byte string that H4 and H5 feed to SHA3-256 determines the pair
\* (ID_u, ID_ms): no other pair of identity strings, all other arguments
\* being those of the call, is encoded to the same hash input.
C36_HashInputDeterminesIdentities ==
    (kdf_call.fn = "h5" /\ kdf_call.result # None) =>
        \A id_u \in IdentityStrings, id_ms \in IdentityStrings :
            <<id_u, id_ms>> # <<kdf_call.args[2], kdf_call.args[3]>> =>
                /\ h5_input(kdf_call.args[1], id_u, id_ms,
                            kdf_call.args[4], kdf_call.args[5])
                      # h5_input(kdf_call.args[1], kdf_call.args[2],
                                 kdf_call.args[3], kdf_call.args[4],
                                 kdf_call.args[5])
                /\ h4_input(id_u, id_ms, kdf_call.args[4],
                            kdf_call.args[5], StartClock)
                      # h4_input(kdf_call.args[2], kdf_call.args[3],
                                 kdf_call.args[4], kdf_call.args[5],
                                 StartClock)

\* C37: a setup call on an RC node that is not the first entry of the peer
\* list is rejected with an error, changes neither that node's parameters
\* nor its shares (nor its RNG), and sends no share to any peer.
C37_SetupOnlyOnFirstPeer ==
    [][(/\ rc_call' # rc_call
        /\ rc_call'.op = "setup"
        /\ rc_call'.node > 1)
          => /\ ~rc_call'.result.ok
             /\ rc_call'.result # None
             /\ UNCHANGED <<rc_params, rc_shares, rc_rng>>]_vars

\* a setup call rejected on a node that holds a share
C37_Witness ==
    /\ rc_call.op = "setup"
    /\ rc_call.node > 1
    /\ ~rc_call.result.ok
    /\ Len(rc_shares[rc_call.node]) = 1
    /\ rc_params[rc_call.node] = None

\* no node of the cluster holds a share
NoSharesDealt == \A p \in Peers : rc_shares[p] = <<>>

\* C38: before setup has distributed shares, register/user and
\* register/server fail with an error and return no key material, and params
\* returns an error instead of parameters; none of these failed calls
\* changes the node's state.
C38_NothingBeforeSetup ==
    [][(/\ rc_call' # rc_call
        /\ NoSharesDealt
        /\ rc_call'.op \in {"register_user", "register_server", "params"})
          => /\ ~rc_call'.result.ok
             /\ rc_call'.result # None
             /\ UNCHANGED <<rc_params, rc_shares, rc_rng>>]_vars

\* register/user, register/server and params each answered with an error
\* before any setup
C38_Witness ==
    /\ NoSharesDealt
    /\ \A p \in Peers : rc_params[p] = None /\ rc_rng[p].pos = 0
    /\ rc_call.op = "register_user"
    /\ rc_call.result = Err("Other")

====
